---------------------------- MODULE Spec2Model ----------------------------
(***************************************************************************)
(* Model of the Intertop reconciliation core of xml_converter_app:         *)
(*   src/src/senders/intertop.py   transport, pagination, executor         *)
(*   src/src/exporters/intertop.py categorizer, planners, coordinator      *)
(*                                                                         *)
(* The specifications of the module:                                       *)
(*   SpecTransport  one call of make_request_async                         *)
(*   SpecSync       one call of make_request                               *)
(*   SpecAuth       one call of auth                                       *)
(*   SpecFetch      one call of get_products                               *)
(*   SpecExec       one call of run_all_offer_updates                      *)
(*   SpecExecFair   SpecExec under the scheduling of the event loop        *)
(*   SpecExecLive   SpecExecFair with a server that eventually answers     *)
(*   SpecPlan       one run of ExporterIntertop.update_intertop, the       *)
(*                  tasks of its two batches running in the executor       *)
(*   SpecData       the runs of SpecPlan over catalogs that hold offers    *)
(*                  with no remote product, no article or no mapped size   *)
(*   SpecRun        the runs of SpecPlan over remote products in a stable  *)
(*                  status or archived and offers of one article           *)
(*   SpecAbort      one run of ExporterIntertop.update_intertop whose      *)
(*                  synchronous calls may raise                            *)
(* Each specification drives its own group of variables and leaves the     *)
(* other groups at their idle value.                                       *)
(***************************************************************************)
EXTENDS Integers, Sequences, FiniteSets, TLC

VARIABLES
    \* ---- make_request_async (one call)
    tpc,        \* "request" | "sleep" | "returned" | "raised"
    ti,         \* loop variable i of `for i in range(retries)`
    tdelay,     \* local `delay`, in ticks
    tsleepAt,   \* which asyncio.sleep the call is in: "429"|"last"|"conn"|"cycle"
    tslept,     \* ticks slept since the last request was issued (history)
    tlast,      \* outcome of the last request (history)
    thint,      \* Retry-After seconds of the last 429, NoHint when absent,
                \* BadHint when not an integer literal (history)
    tresult,    \* value returned: "json" | "none" | "unset"
    \* ---- make_request (one call)
    sscript,    \* what the 1st, 2nd, ... attempt meets
    spc,        \* "request" | "returned" | "raised"
    si,         \* loop variable i of `for i in range(retries)`
    sattempts,  \* requests issued so far (history)
    sslept,     \* seconds slept between attempts so far (history)
    sresult,    \* value returned: "json" | "none" | "unset"
    \* ---- auth (one call)
    aresponse,  \* what requests.post meets
    apc,        \* "request" | "returned" | "raised"
    aresult,    \* the pair returned
    \* ---- get_products (one call)
    script,       \* what the server answers to the 1st, 2nd, ... page request
    offset,       \* local `offset`
    all_products, \* local `all_products`
    fpc,          \* "loop" | "returned" | "raised"
    requested,    \* offsets requested so far, in order (history)
    \* ---- run_all_offer_updates (one call)
    concurrency_limit, \* parameter concurrency_limit
    ntasks,            \* len(tasks_args_list)
    epc,               \* per task: "pending"|"request"|"sleep"|"done"|"failed"
    sem,               \* semaphore._value
    waiters,           \* tasks blocked in semaphore.acquire(), oldest first
    woken,             \* tasks a release handed a permit to, not yet resumed
    mainpc,            \* "gathering" | "returned"
    \* ---- ExporterIntertop.update_intertop (one run)
    offers,                 \* self.catalog.offers
    products,               \* self.products
    article_sizeID_mapping, \* self.article_sizeID_mapping
    ppc,                    \* position in update_intertop
    categorized,            \* categorized_products
    articles_to_moderate,   \* the pending-moderation set
    vendorCodes_draft,      \* the draft list
    used_keys,              \* used_article_sizeID_mapping
    update_args,            \* update_offer_task_args
    deactivate_args,        \* deactivate_offer_task_args
    calls,                  \* remote calls of the synchronous path, in order (history)
    batches                 \* task states of the batches that have returned (history)

tvars == <<tpc, ti, tdelay, tsleepAt, tslept, tlast, thint, tresult>>
svars == <<sscript, spc, si, sattempts, sslept, sresult>>
avars == <<aresponse, apc, aresult>>
fvars == <<script, offset, all_products, fpc, requested>>
evars == <<concurrency_limit, ntasks, epc, sem, waiters, woken, mainpc>>
pvars == <<offers, products, article_sizeID_mapping, ppc, categorized,
           articles_to_moderate, vendorCodes_draft, used_keys, update_args,
           deactivate_args, calls>>

rvars == <<batches>>

vars == <<tvars, svars, avars, fvars, evars, pvars, rvars>>

Min(a, b) == IF a <= b THEN a ELSE b

\* Python's None (also what dict.get returns for a missing key)
None == "None"
Range(seq) == {seq[i] : i \in DOMAIN seq}

\* frame conditions: an operation of one component leaves the others alone
TransportOnly == UNCHANGED <<svars, avars, fvars, evars, pvars, rvars>>
SyncOnly == UNCHANGED <<tvars, avars, fvars, evars, pvars, rvars>>
AuthOnly == UNCHANGED <<tvars, svars, fvars, evars, pvars, rvars>>
FetchOnly == UNCHANGED <<tvars, svars, avars, evars, pvars, rvars>>
ExecOnly == UNCHANGED <<tvars, svars, avars, fvars, pvars, rvars>>
PlanOnly == UNCHANGED <<tvars, svars, avars, fvars, evars, rvars>>
\* a step of _run_async_updates: the coordinator and the executor
BatchOnly == UNCHANGED <<tvars, svars, avars, fvars>>

(***************************************************************************)
(* make_request_async                      src/src/senders/intertop.py     *)
(***************************************************************************)
retries == 10
sleep_time == 10
\* backoff_factor = 1.5, kept exact as the fraction 3/2
backoff_num == 3
backoff_den == 2
max_delay == 300
\* Delays are floats in the code (10, 15, 22.5, 33.75, ...).  One second is
\* 2^8 ticks, which keeps every value 10 * 1.5^k below the cap an integer.
TicksPerSecond == 2 ^ 8

NoHint == 0 - 1
\* a Retry-After value that int() cannot parse: an HTTP-date, "1.5"
BadHint == 0 - 2
\* Retry-After values the server may send with a 429 (seconds)
RetryAfterHints == {0, 5, 400}

\* (variant of NextDelay: the delay grows without the cap)
NextDelayUncapped(d) == (d * backoff_num) \div backoff_den

\* delay = min(delay * backoff_factor, 300)
NextDelay(d) == Min((d * backoff_num) \div backoff_den, max_delay * TicksPerSecond)

\* retry_after = int(e.response.headers.get("Retry-After", delay)), in ticks;
\* int() truncates the float default to whole seconds
RetryAfterTicks(h, d) ==
    IF h = NoHint THEN (d \div TicksPerSecond) * TicksPerSecond
    ELSE h * TicksPerSecond
\* int(...) of line 510 returns: the header is absent (the default is the
\* number `delay`) or an integer literal; otherwise it raises ValueError
RetryAfterParses(h) == h # BadHint

TransportInit ==
    /\ tpc = "request"
    /\ ti = 0
    /\ tdelay = sleep_time * TicksPerSecond
    /\ tsleepAt = "none"
    /\ tslept = 0
    /\ tlast = "none"
    /\ thint = NoHint
    /\ tresult = "unset"

TransportIdle ==
    /\ tpc = "idle"
    /\ ti = 0
    /\ tdelay = 0
    /\ tsleepAt = "none"
    /\ tslept = 0
    /\ tlast = "none"
    /\ thint = NoHint
    /\ tresult = "unset"

\* The for loop moves to its next iteration; when range(retries) is used up
\* the code falls to line 533: the delay grows and the call sleeps it.
\* (slept: the ticks already slept since the last request)
ExhaustedStep(slept) ==
    /\ tdelay' = NextDelay(tdelay)
    /\ tpc' = "sleep"
    /\ tsleepAt' = "cycle"
    /\ tslept' = slept + NextDelay(tdelay)
    /\ UNCHANGED <<ti, tresult>>

NextIteration(slept) ==
    IF ti < retries - 1
    THEN /\ ti' = ti + 1
         /\ tpc' = "request"
         /\ tsleepAt' = "none"
         /\ tslept' = slept
         /\ UNCHANGED <<tdelay, tresult>>
    ELSE ExhaustedStep(slept)

\* 2xx with a JSON body: return response.json()
RespondOk ==
    /\ TransportOnly
    /\ tpc = "request"
    /\ tpc' = "returned"
    /\ tresult' = "json"
    /\ tlast' = "ok"
    /\ thint' = NoHint
    /\ tslept' = 0
    /\ UNCHANGED <<ti, tdelay, tsleepAt>>

\* 2xx with an empty body: return None
RespondEmpty ==
    /\ TransportOnly
    /\ tpc = "request"
    /\ tpc' = "returned"
    /\ tresult' = "none"
    /\ tlast' = "empty"
    /\ thint' = NoHint
    /\ tslept' = 0
    /\ UNCHANGED <<ti, tdelay, tsleepAt>>

\* 2xx whose body is not JSON: response.json() raises, no handler catches it
RespondMalformed ==
    /\ TransportOnly
    /\ tpc = "request"
    /\ tpc' = "raised"
    /\ tlast' = "malformed"
    /\ thint' = NoHint
    /\ tslept' = 0
    /\ UNCHANGED <<ti, tdelay, tsleepAt, tresult>>

\* (variant of On404: a 404 is retried like any other status)
On404Retried == NextIteration(0)

\* 404: return None at once
On404 ==
    /\ tpc' = "returned"
    /\ tresult' = "none"
    /\ tslept' = 0
    /\ UNCHANGED <<ti, tdelay, tsleepAt>>

Respond404 ==
    /\ TransportOnly
    /\ tpc = "request"
    /\ tlast' = "404"
    /\ thint' = NoHint
    /\ On404

\* 429: sleep retry_after, then `continue`; the ValueError of int() is
\* raised inside the handler of HTTPStatusError and nothing catches it
On429(h) ==
    IF RetryAfterParses(h)
    THEN /\ tpc' = "sleep"
         /\ tsleepAt' = "429"
         /\ tslept' = RetryAfterTicks(h, tdelay)
         /\ UNCHANGED <<ti, tdelay, tresult>>
    ELSE /\ tpc' = "raised"
         /\ tslept' = 0
         /\ UNCHANGED <<ti, tdelay, tsleepAt, tresult>>

Respond429 ==
    /\ TransportOnly
    /\ tpc = "request"
    /\ \E h \in RetryAfterHints \cup {NoHint, BadHint} :
          /\ thint' = h
          /\ On429(h)
    /\ tlast' = "429"

\* any other 4xx/5xx: only the last iteration of the cycle logs and sleeps
OnHttpError ==
    IF ti = retries - 1
    THEN /\ tpc' = "sleep"
         /\ tsleepAt' = "last"
         /\ tslept' = tdelay
         /\ UNCHANGED <<ti, tdelay, tresult>>
    ELSE NextIteration(0)

RespondHttpError ==
    /\ TransportOnly
    /\ tpc = "request"
    /\ tlast' = "http"
    /\ thint' = NoHint
    /\ OnHttpError

\* ConnectError, TimeoutException, ReadError: sleep delay
RespondConnError ==
    /\ TransportOnly
    /\ tpc = "request"
    /\ tlast' = "conn"
    /\ thint' = NoHint
    /\ tpc' = "sleep"
    /\ tsleepAt' = "conn"
    /\ tslept' = tdelay
    /\ UNCHANGED <<ti, tdelay, tresult>>

\* client.request raises an exception that is neither HTTPStatusError nor
\* ConnectError, TimeoutException, ReadError (httpx.WriteError, CloseError,
\* RemoteProtocolError, TooManyRedirects, ...): no handler, the call ends
RespondOtherError ==
    /\ TransportOnly
    /\ tpc = "request"
    /\ tpc' = "raised"
    /\ tlast' = "other"
    /\ thint' = NoHint
    /\ tslept' = 0
    /\ UNCHANGED <<ti, tdelay, tsleepAt, tresult>>

\* an asyncio.sleep inside the loop body ends: next iteration of the for loop
WakeInLoop ==
    /\ TransportOnly
    /\ tpc = "sleep"
    /\ tsleepAt \in {"429", "last", "conn"}
    /\ NextIteration(tslept)
    /\ UNCHANGED <<tlast, thint>>

\* the sleep at line 537 ends: the while loop starts a new cycle
WakeCycle ==
    /\ TransportOnly
    /\ tpc = "sleep"
    /\ tsleepAt = "cycle"
    /\ tpc' = "request"
    /\ ti' = 0
    /\ tsleepAt' = "none"
    /\ UNCHANGED <<tdelay, tslept, tlast, thint, tresult>>

TransportNext ==
    \/ RespondOk
    \/ RespondEmpty
    \/ RespondMalformed
    \/ Respond404
    \/ Respond429
    \/ RespondHttpError
    \/ RespondConnError
    \/ RespondOtherError
    \/ WakeInLoop
    \/ WakeCycle

(***************************************************************************)
(* make_request                            src/src/senders/intertop.py     *)
(***************************************************************************)
sync_retries == 3      \* parameter retries
sync_sleep_time == 3   \* parameter sleep_time; the body never reads it

\* What an attempt can meet: a 2xx with a JSON body, a 2xx with an empty
\* body, a 2xx whose body is not JSON, a 429, another 4xx/5xx status
\* (raise_for_status raises requests.HTTPError for both), or
\* requests.request itself raising (requests.ConnectionError,
\* requests.Timeout).
SyncOutcomes == {"ok", "empty", "malformed", "429", "http", "conn"}

SyncInit ==
    /\ sscript \in [1..sync_retries -> SyncOutcomes]
    /\ spc = "request"
    /\ si = 0
    /\ sattempts = 0
    /\ sslept = 0
    /\ sresult = "unset"

SyncIdle ==
    /\ sscript = <<>>
    /\ spc = "idle"
    /\ si = 0
    /\ sattempts = 0
    /\ sslept = 0
    /\ sresult = "unset"

\* the attempt of iteration i meets outcome `kind`
SyncMeets(kind) ==
    /\ spc = "request"
    /\ sscript[si + 1] = kind
    /\ sattempts' = sattempts + 1
    /\ UNCHANGED sscript

\* lines 65-67: 2xx with a body, `return response.json()`
SyncRespondOk ==
    /\ SyncOnly
    /\ SyncMeets("ok")
    /\ spc' = "returned"
    /\ sresult' = "json"
    /\ UNCHANGED <<si, sslept>>

\* lines 66-69: 2xx with no body, `return None`
SyncRespondEmpty ==
    /\ SyncOnly
    /\ SyncMeets("empty")
    /\ spc' = "returned"
    /\ sresult' = "none"
    /\ UNCHANGED <<si, sslept>>

\* line 67: response.json() raises, and no handler catches it
SyncRespondMalformed ==
    /\ SyncOnly
    /\ SyncMeets("malformed")
    /\ spc' = "raised"
    /\ UNCHANGED <<si, sslept, sresult>>

\* what the handler of requests.HTTPError leaves behind: the loop goes to
\* its next iteration at once, and falls off its end after the last one,
\* where the function returns None
AfterHttpError ==
    /\ IF si < sync_retries - 1
       THEN /\ si' = si + 1
            /\ spc' = "request"
            /\ UNCHANGED sresult
       ELSE /\ spc' = "returned"
            /\ sresult' = "none"
            /\ UNCHANGED si
    /\ UNCHANGED sslept

\* lines 65, 71-75: raise_for_status raises requests.HTTPError
SyncRespondHttpError ==
    /\ SyncOnly
    /\ SyncMeets("http")
    /\ AfterHttpError

\* lines 65, 71-75: a 429 is a requests.HTTPError like any other status;
\* the handler reads neither the status nor a Retry-After header
SyncRespond429 ==
    /\ SyncOnly
    /\ SyncMeets("429")
    /\ AfterHttpError

\* line 58: requests.request raises an exception that is not an HTTPError;
\* `except requests.HTTPError` does not catch it
SyncRespondConnError ==
    /\ SyncOnly
    /\ SyncMeets("conn")
    /\ spc' = "raised"
    /\ UNCHANGED <<si, sslept, sresult>>

SyncNext ==
    \/ SyncRespondOk
    \/ SyncRespondEmpty
    \/ SyncRespondMalformed
    \/ SyncRespond429
    \/ SyncRespondHttpError
    \/ SyncRespondConnError

(***************************************************************************)
(* auth                                    src/src/senders/intertop.py     *)
(***************************************************************************)
\* Values are kept by their JSON type: auth looks at nothing else.
JsonKinds == {"object", "null", "string", "int", "bool"}
\* the key is not in the object
Missing == "missing"
\* what `.get` on a value that is no dict ends in
AttributeError == "AttributeError"
HttpStatuses == {200, 401, 500}

\* The bodies of an answer: text that is not JSON (the empty text too), or
\* a JSON value `top`, with the members data, data.access_token,
\* data.access_token.token and data.access_token.expires_date where the
\* value holding them is an object.
AuthBodies ==
    {b \in [json : BOOLEAN, top : JsonKinds,
            data : JsonKinds \cup {Missing}, access_token : JsonKinds \cup {Missing},
            token : JsonKinds \cup {Missing}, expires_date : JsonKinds \cup {Missing}] :
        /\ ~b.json => b.top = "null"
        /\ (~b.json \/ b.top # "object") => b.data = Missing
        /\ b.data # "object" => b.access_token = Missing
        /\ b.access_token # "object" =>
              (b.token = Missing /\ b.expires_date = Missing)}

NoBody ==
    [json |-> FALSE, top |-> "null", data |-> Missing, access_token |-> Missing,
     token |-> Missing, expires_date |-> Missing]

\* requests.post either raises before any answer (requests.ConnectionError,
\* requests.Timeout) or gets an answer with a status and a body
AuthResponses ==
    {[net |-> n, status |-> 0, body |-> NoBody] : n \in {"conn", "timeout"}}
    \cup [net : {"answered"}, status : HttpStatuses, body : AuthBodies]

NoPair == [token |-> "unset", expires_date |-> "unset"]
\* (None, None)
AbsentPair == [token |-> None, expires_date |-> None]

AuthInit ==
    /\ aresponse \in AuthResponses
    /\ apc = "request"
    /\ aresult = NoPair

AuthIdle ==
    /\ aresponse = [net |-> "idle", status |-> 0, body |-> NoBody]
    /\ apc = "idle"
    /\ aresult = NoPair

\* holder.get(key, default): the member if the holder is a dict that has
\* it, the default if it is a dict without it; a holder that is no dict
\* has no `.get`
DictGet(holder, member, default) ==
    IF holder # "object" THEN AttributeError
    ELSE IF member = Missing THEN default
    ELSE member

\* lines 87-90: the two chains of `.get`; a default {} has no members
AccessToken(b) == DictGet(DictGet(b.top, b.data, "object"), b.access_token, "object")
TokenOf(b) == DictGet(AccessToken(b), b.token, "null")
ExpiresDateOf(b) == DictGet(AccessToken(b), b.expires_date, "null")

\* isinstance(token, str) and isinstance(expires_date, int); bool is a
\* subclass of int
IsStr(kind) == kind = "string"
IsInt(kind) == kind \in {"int", "bool"}

\* line 84 raises, handled at lines 113-115
AuthConnError ==
    /\ AuthOnly
    /\ apc = "request"
    /\ aresponse.net \in {"conn", "timeout"}
    /\ apc' = "returned"
    /\ aresult' = AbsentPair
    /\ UNCHANGED aresponse

\* line 85: raise_for_status raises on a 4xx/5xx, handled at lines 101-106
AuthHttpError ==
    /\ AuthOnly
    /\ apc = "request"
    /\ aresponse.net = "answered"
    /\ aresponse.status >= 400
    /\ apc' = "returned"
    /\ aresult' = AbsentPair
    /\ UNCHANGED aresponse

\* line 86: response.json() raises, handled at lines 108-111
AuthNotJson ==
    /\ AuthOnly
    /\ apc = "request"
    /\ aresponse.net = "answered"
    /\ aresponse.status < 400
    /\ ~aresponse.body.json
    /\ apc' = "returned"
    /\ aresult' = AbsentPair
    /\ UNCHANGED aresponse

\* lines 87-90: a `.get` on a value that is no dict raises AttributeError,
\* which none of the three handlers catches
AuthBadShape ==
    /\ AuthOnly
    /\ apc = "request"
    /\ aresponse.net = "answered"
    /\ aresponse.status < 400
    /\ aresponse.body.json
    /\ TokenOf(aresponse.body) = AttributeError
    /\ apc' = "raised"
    /\ UNCHANGED <<aresponse, aresult>>

\* lines 91-99: the pair, or (None, None) when a type is not the expected one
AuthReturns ==
    /\ AuthOnly
    /\ apc = "request"
    /\ aresponse.net = "answered"
    /\ aresponse.status < 400
    /\ aresponse.body.json
    /\ TokenOf(aresponse.body) # AttributeError
    /\ apc' = "returned"
    /\ aresult' = IF IsStr(TokenOf(aresponse.body)) /\ IsInt(ExpiresDateOf(aresponse.body))
                  THEN [token |-> TokenOf(aresponse.body),
                        expires_date |-> ExpiresDateOf(aresponse.body)]
                  ELSE AbsentPair
    /\ UNCHANGED aresponse

AuthNext ==
    \/ AuthConnError
    \/ AuthHttpError
    \/ AuthNotJson
    \/ AuthBadShape
    \/ AuthReturns

(***************************************************************************)
(* get_products                            src/src/senders/intertop.py     *)
(***************************************************************************)
page_limit == 300
MaxPages == 4
\* item counts a page may carry
PageSizes == {0, 1, 137, 300}

\* What a page request comes back with: make_request returned None (HTTP
\* errors on every attempt, or an empty body), make_request raised (an
\* exception other than requests.HTTPError), or a JSON page of n items.
Answers ==
    {[kind |-> "none", n |-> 0], [kind |-> "raise", n |-> 0]}
        \cup {[kind |-> "page", n |-> n] : n \in PageSizes}
Scripts == UNION {[1..len -> Answers] : len \in 0..MaxPages}

\* The items of the page served at offset `off`: numbered by their position
\* in the server's listing.
PageItems(off, n) == [j \in 1..n |-> off + j]

\* make_request(BASE + "products", params={"limit": 300, "offset": offset});
\* past the end of the script the listing is exhausted: an empty page.
AnswerAt(off) ==
    LET k == (off \div page_limit) + 1
    IN IF k <= Len(script) THEN script[k] ELSE [kind |-> "page", n |-> 0]

FetchInit ==
    /\ script \in Scripts
    /\ offset = 0
    /\ all_products = <<>>
    /\ fpc = "loop"
    /\ requested = <<>>

FetchIdle ==
    /\ script = <<>>
    /\ offset = 0
    /\ all_products = <<>>
    /\ fpc = "idle"
    /\ requested = <<>>

\* whether the loop goes on after this answer
ContinuesAfter(a) == a.kind = "page" /\ a.n > 0

\* (variant of NextOffset: the offset advances by the items received)
NextOffsetByCount(off, a) == off + a.n

\* offset += 300
NextOffset(off, a) == off + page_limit

\* one iteration of `while True`
FetchPage ==
    /\ FetchOnly
    /\ fpc = "loop"
    /\ LET a == AnswerAt(offset)
       IN /\ requested' = Append(requested, offset)
          /\ IF ContinuesAfter(a)
             THEN /\ all_products' = all_products \o PageItems(offset, a.n)
                  /\ offset' = NextOffset(offset, a)
                  /\ fpc' = "loop"
             ELSE /\ fpc' = IF a.kind = "raise" THEN "raised" ELSE "returned"
                  /\ UNCHANGED <<all_products, offset>>
    /\ UNCHANGED script

FetchNext == FetchPage

(***************************************************************************)
(* run_all_offer_updates                   src/src/senders/intertop.py     *)
(***************************************************************************)
MaxLimit == 2
MaxTasks == 3

Tasks == 1..ntasks

ExecInit ==
    /\ concurrency_limit \in 1..MaxLimit
    /\ ntasks \in 1..MaxTasks
    /\ epc = [t \in 1..ntasks |-> "pending"]
    /\ sem = concurrency_limit
    /\ waiters = <<>>
    /\ woken = {}
    /\ mainpc = "gathering"

ExecIdle ==
    /\ concurrency_limit = 0
    /\ ntasks = 0
    /\ epc = <<>>
    /\ sem = 0
    /\ waiters = <<>>
    /\ woken = {}
    /\ mainpc = "idle"

\* The gate is an asyncio.Semaphore (Python 3.11).  acquire() takes a
\* permit at once only when locked() is false: the counter is positive and
\* no future is left in the queue of waiters, woken or not.
CanAcquire == sem > 0 /\ waiters = <<>> /\ woken = {}

\* the task has not reached `async with semaphore` yet
NotStarted(t) ==
    /\ epc[t] = "pending"
    /\ t \notin Range(waiters)
    /\ t \notin woken

\* _wake_up_next(): the oldest waiter whose future is not done gets the
\* permit, the counter goes down by one
WakeUpNext(value, ws, wk) ==
    IF ws # <<>>
    THEN [sem |-> value - 1, waiters |-> Tail(ws), woken |-> wk \cup {Head(ws)}]
    ELSE [sem |-> value, waiters |-> ws, woken |-> wk]

\* release(), at the exit of `async with`: the counter goes up by one,
\* then _wake_up_next()
Release ==
    LET r == WakeUpNext(sem + 1, waiters, woken)
    IN /\ sem' = r.sem
       /\ waiters' = r.waiters
       /\ woken' = r.woken

\* (variant of Admit: the wrapper starts update_offer without the gate)
AdmitNoGate(t) ==
    /\ ExecOnly
    /\ mainpc = "gathering"
    /\ NotStarted(t)
    /\ sem' = sem - 1
    /\ epc' = [epc EXCEPT ![t] = "request"]
    /\ UNCHANGED <<concurrency_limit, ntasks, waiters, woken, mainpc>>

\* `async with semaphore:` entered with a free permit, update_offer issues
\* its first request
Admit(t) ==
    /\ ExecOnly
    /\ mainpc = "gathering"
    /\ NotStarted(t)
    /\ CanAcquire
    /\ sem' = sem - 1
    /\ epc' = [epc EXCEPT ![t] = "request"]
    /\ UNCHANGED <<concurrency_limit, ntasks, waiters, woken, mainpc>>

\* acquire() finds the semaphore locked: the task joins the waiters
AcquireWaits(t) ==
    /\ ExecOnly
    /\ mainpc = "gathering"
    /\ NotStarted(t)
    /\ ~CanAcquire
    /\ waiters' = Append(waiters, t)
    /\ UNCHANGED <<concurrency_limit, ntasks, epc, sem, woken, mainpc>>

\* a woken waiter resumes in acquire(): it holds the permit the release
\* took for it; `if self._value > 0: self._wake_up_next()`; then
\* update_offer issues its first request
AdmitWoken(t) ==
    /\ ExecOnly
    /\ mainpc = "gathering"
    /\ t \in woken
    /\ LET r == IF sem > 0 THEN WakeUpNext(sem, waiters, woken \ {t})
                ELSE [sem |-> sem, waiters |-> waiters, woken |-> woken \ {t}]
       IN /\ sem' = r.sem
          /\ waiters' = r.waiters
          /\ woken' = r.woken
    /\ epc' = [epc EXCEPT ![t] = "request"]
    /\ UNCHANGED <<concurrency_limit, ntasks, mainpc>>

\* (variant of TaskReturns: the task itself marks the article of its
\* arguments for moderation)
TaskReturnsMarksArticle(t) ==
    /\ epc[t] = "request"
    /\ epc' = [epc EXCEPT ![t] = "done"]
    /\ Release
    /\ articles_to_moderate' = articles_to_moderate \cup
          {(IF ppc = "updates_running" THEN update_args ELSE deactivate_args)[t].article}
    /\ UNCHANGED <<concurrency_limit, ntasks, mainpc, offers, products,
                   article_sizeID_mapping, ppc, categorized, vendorCodes_draft,
                   used_keys, update_args, deactivate_args, calls>>
    /\ UNCHANGED <<tvars, svars, avars, fvars, rvars>>

\* (variant of TaskReturns: the permit is not given back)
TaskReturnsKeepsPermit(t) ==
    /\ ExecOnly
    /\ epc[t] = "request"
    /\ epc' = [epc EXCEPT ![t] = "done"]
    /\ UNCHANGED <<concurrency_limit, ntasks, sem, waiters, woken, mainpc>>

\* make_request_async returns (2xx or 404): the task leaves `async with`
TaskReturns(t) ==
    /\ ExecOnly
    /\ epc[t] = "request"
    /\ epc' = [epc EXCEPT ![t] = "done"]
    /\ Release
    /\ UNCHANGED <<concurrency_limit, ntasks, mainpc>>

\* make_request_async raises: `async with` releases, the future fails and
\* the loop over as_completed logs it
TaskRaises(t) ==
    /\ ExecOnly
    /\ epc[t] = "request"
    /\ epc' = [epc EXCEPT ![t] = "failed"]
    /\ Release
    /\ UNCHANGED <<concurrency_limit, ntasks, mainpc>>

\* the attempt failed and the transport sleeps (429, connection error, end
\* of a cycle), still inside `async with`; an attempt that fails and is
\* retried at once (4xx/5xx before the last iteration) leaves the task in
\* "request"
TaskSleeps(t) ==
    /\ ExecOnly
    /\ epc[t] = "request"
    /\ epc' = [epc EXCEPT ![t] = "sleep"]
    /\ UNCHANGED <<concurrency_limit, ntasks, sem, waiters, woken, mainpc>>

TaskWakes(t) ==
    /\ ExecOnly
    /\ epc[t] = "sleep"
    /\ epc' = [epc EXCEPT ![t] = "request"]
    /\ UNCHANGED <<concurrency_limit, ntasks, sem, waiters, woken, mainpc>>

\* the loop over asyncio.as_completed has awaited every future
ExecReturns ==
    /\ ExecOnly
    /\ mainpc = "gathering"
    /\ \A t \in Tasks : epc[t] \in {"done", "failed"}
    /\ mainpc' = "returned"
    /\ UNCHANGED <<concurrency_limit, ntasks, epc, sem, waiters, woken>>

ExecNext ==
    \/ \E t \in Tasks : Admit(t)
    \/ \E t \in Tasks : AcquireWaits(t)
    \/ \E t \in Tasks : AdmitWoken(t)
    \/ \E t \in Tasks : TaskReturns(t)
    \/ \E t \in Tasks : TaskRaises(t)
    \/ \E t \in Tasks : TaskSleeps(t)
    \/ \E t \in Tasks : TaskWakes(t)
    \/ ExecReturns

(***************************************************************************)
(* ExporterIntertop                        src/src/exporters/intertop.py   *)
(***************************************************************************)
StableStatuses == {"uploaded", "moderate", "approved", "not_approved"}
\* param names the planning loop treats as a size (the code lists
\* "розмір", "size", "зріст")
SizeNames == {"rozmir", "size", "zrist"}

\* self.size_mapping, loaded from sizes_id_intertop.csv: local size -> size_id
size_mapping == ("S" :> 1) @@ ("M" :> 2)

\* the characters str.isspace() holds for, as far as a string of the
\* module can hold them: blank, tab, newline, carriage return, form feed,
\* then U+000B, U+001C..U+001F, U+0085, U+00A0 and U+1680 written as
\* themselves.  (The remaining ones, U+2000..U+200A, U+2028, U+2029,
\* U+202F, U+205F and U+3000, cannot occur in a string of the module.)
Whitespace ==
    {" ", "\t", "\n", "\r", "\f",
     "", "", "", "", "", "", " ", " "}

RECURSIVE LStrip(_)
\* str.lstrip(): the whitespace at the front is taken off, however long
LStrip(s) ==
    IF s # "" /\ Head(s) \in Whitespace THEN LStrip(Tail(s)) ELSE s

RECURSIVE RStrip(_)
\* str.rstrip(): the whitespace at the end is taken off, however long
RStrip(s) ==
    IF s # "" /\ SubSeq(s, Len(s), Len(s)) \in Whitespace
    THEN RStrip(SubSeq(s, 1, Len(s) - 1))
    ELSE s

\* str.strip(): every run of whitespace is taken off both ends
Strip(s) == RStrip(LStrip(s))

\* size_intertop_mapping: the size_id of the stripped value, or None --
\* written 0, which `not intertop_size_id` treats the same way
size_intertop_mapping(rozetka_value) ==
    IF Strip(rozetka_value) \in DOMAIN size_mapping
    THEN size_mapping[Strip(rozetka_value)]
    ELSE 0

\* the orders in which Python may iterate over the set S
Orders(S) ==
    {f \in [1..Cardinality(S) -> S] : \A i, j \in 1..Cardinality(S) : i # j => f[i] # f[j]}

\* dict.get(key) with default None
Get(map, key) == IF key \in DOMAIN map THEN map[key] ELSE None

\* dict((vendor_code, article) for product in products): the last product
\* with a vendor code wins
AllProductsMap(ps) ==
    [vc \in {ps[i].vendor_code : i \in DOMAIN ps} |->
        LET last == CHOOSE i \in DOMAIN ps :
                        /\ ps[i].vendor_code = vc
                        /\ \A j \in DOMAIN ps : ps[j].vendor_code = vc => j <= i
        IN ps[last].article]

\* `if offer.article`, `if barcode`: the value is neither None nor the
\* empty string
Truthy(value) == value \notin {None, ""}

\* keys of self.article_uniq_groups (_prepare_data_maps): the articles of
\* the offers that have one
LocalArticles(os) == {os[i].article : i \in {k \in DOMAIN os : Truthy(os[k].article)}}

\* (variant of NotApprovedCodes: the local catalog is not consulted)
NotApprovedCodesAnywhere(ps, os) ==
    {ps[i].vendor_code : i \in {k \in DOMAIN ps : ps[k].status = "not_approved"}}

\* lines 129-134: vendorCodes_not_approved
NotApprovedCodes(ps, os) ==
    {ps[i].vendor_code : i \in {k \in DOMAIN ps :
        ps[k].status = "not_approved" /\ ps[k].vendor_code \in LocalArticles(os)}}

\* _categorize_intertop_products
Categorize(ps, os) ==
    [all_products_map |-> AllProductsMap(ps),
     vendorCodes_not_uploaded |->
        {ps[i].vendor_code : i \in {k \in DOMAIN ps : ps[k].status \notin StableStatuses}},
     vendorCodes_draft |->
        LET drafts == SelectSeq(ps, LAMBDA pr : pr.status = "draft")
        IN [i \in DOMAIN drafts |-> drafts[i].vendor_code],
     vendorCodes_not_approved |-> NotApprovedCodes(ps, os),
     vendorCodes_only_on_intertop |->
        {ps[i].vendor_code : i \in {k \in DOMAIN ps : ps[k].vendor_code \notin LocalArticles(os)}},
     articles_only_on_rozetka |->
        {os[i].article : i \in {k \in DOMAIN os :
            os[k].article \notin DOMAIN AllProductsMap(ps)}},
     articles_moderate |->
        LET mods == SelectSeq(ps, LAMBDA pr : pr.status = "moderate")
        IN [i \in DOMAIN mods |-> mods[i].article]]

\* change_product_status(article, bearer, status), as a logged remote call;
\* phase and offer tell where the run issued it (offer 0: not from an offer)
StatusCall(article, status, phase, idx) ==
    [op |-> "status", article |-> article, status |-> status,
     phase |-> phase, offer |-> idx]

\* create_offer_for_product(...), as a logged remote call.  The barcode
\* f"{offer.article}{intertop_size_id}" is kept as the pair it is built from.
CreateCall(o, idx, article, size_id) ==
    [op |-> "create", article |-> article,
     barcode |-> <<o.article, size_id>>, quantity |-> o.stock_quantity,
     size_id |-> size_id, base_price_amount |-> o.price,
     discount_price_amount |-> o.discount_price,
     phase |-> "plan", offer |-> idx]

\* _handle_product_status_changes, archiving in the order `ord` of the set
\* articles_to_archive
HandleStatusChanges(cat, ord) ==
    LET archived == [i \in DOMAIN ord |->
                        StatusCall(Get(cat.all_products_map, ord[i]), "draft", "prepass", 0)]
        moderated == [i \in DOMAIN cat.articles_moderate |->
                        StatusCall(cat.articles_moderate[i], "draft", "prepass", 0)]
    IN [moderate |-> Range(cat.articles_moderate),
        draft |-> cat.vendorCodes_draft \o ord,
        calls |-> archived \o moderated]

\* (variant of ArticlesToArchive: notUploaded is not taken out)
ArticlesToArchiveAll(cat) == cat.vendorCodes_only_on_intertop

ArticlesToArchive(cat) ==
    cat.vendorCodes_only_on_intertop \ cat.vendorCodes_not_uploaded

\* ---- _prepare_offer_updates.  acc carries the values the loop mutates:
\* moderate (articles_to_moderate), draft (vendorCodes_draft), used
\* (used_article_sizeID_mapping), tasks (update_offer_task_args), calls;
\* failAt is the number, in the log of the run, of the call whose
\* make_request raises (0: none does).

\* the call that raises has been issued: the exception leaves
\* _prepare_offer_updates and no statement after the call runs
Raised(acc) == acc.failAt # 0 /\ Len(acc.calls) >= acc.failAt

\* (variant of Matches: the quantity is not compared)
MatchesNoQuantity(o, v) ==
    /\ o.price = v.base_price_amount
    /\ o.discount_price = v.discount_price_amount
    /\ v.offer_activity = TRUE

\* the comparison at lines 268-273
Matches(o, v) ==
    /\ o.price = v.base_price_amount
    /\ o.discount_price = v.discount_price_amount
    /\ o.stock_quantity = v.quantity
    /\ v.offer_activity = TRUE

\* (variant of UpdateTask: the activity follows the offer's availability)
UpdateTaskByAvailability(o, idx, article, v) ==
    [article |-> article, barcode |-> v.barcode,
     base_price_amount |-> o.price,
     discount_price_amount |-> o.discount_price,
     quantity |-> o.stock_quantity, activity |-> o.available, offer |-> idx]

\* the tuple appended at lines 274-284 (offer: which offer it came from)
UpdateTask(o, idx, article, v) ==
    [article |-> article, barcode |-> v.barcode,
     base_price_amount |-> o.price,
     discount_price_amount |-> o.discount_price,
     quantity |-> o.stock_quantity, activity |-> TRUE, offer |-> idx]

\* (variant of MoveToDraft: the draft list is not consulted)
MoveToDraftAlways(acc, o, idx) ==
    [acc EXCEPT
        !.draft = Append(@, o.article),
        !.calls = Append(@, StatusCall(Get(categorized.all_products_map, o.article),
                                       "draft", "plan", idx))]

\* lines 235-239 and 290-292: move the article to draft unless it is
\* already in the draft list
MoveToDraft(acc, o, idx) ==
    IF o.article \notin Range(acc.draft)
    THEN [acc EXCEPT
            !.draft = Append(@, o.article),
            !.calls = Append(@, StatusCall(Get(categorized.all_products_map, o.article),
                                           "draft", "plan", idx))]
    ELSE acc

\* lines 229-239: the article is in vendorCodes_not_uploaded.  Line 233
\* looks the offer's vendor code up in the set of articles and line 234
\* adds the product's article.
MarkNotUploaded(acc, o, idx) ==
    LET marked == IF o.article \notin acc.moderate
                  THEN [acc EXCEPT !.moderate =
                            @ \cup {Get(categorized.all_products_map, o.article)}]
                  ELSE acc
    IN MoveToDraft(marked, o, idx)

\* (variant of OnFound: the key is recorded as used only with an update)
OnFoundUsedOnUpdate(acc, o, idx, key) ==
    LET v == article_sizeID_mapping[key]
    IN IF ~Matches(o, v)
       THEN [acc EXCEPT !.used = @ \cup {key},
                        !.tasks = Append(@, UpdateTask(o, idx, key[1], v))]
       ELSE acc

\* lines 264-286: the variant exists
OnFound(acc, o, idx, key) ==
    LET v == article_sizeID_mapping[key]
        marked == [acc EXCEPT !.used = @ \cup {key}]
    IN IF ~Matches(o, v)
       THEN [marked EXCEPT !.tasks = Append(@, UpdateTask(o, idx, key[1], v))]
       ELSE marked

\* lines 287-301: no variant, create it
OnMissing(acc, o, idx, key) ==
    LET marked == MoveToDraft([acc EXCEPT !.moderate = @ \cup {key[1]}], o, idx)
    IN IF Raised(marked)
       THEN marked
       ELSE [marked EXCEPT !.calls = Append(@, CreateCall(o, idx, key[1], key[2]))]

RECURSIVE SizeLoop(_, _, _, _)

\* (variant of AfterCreate: no `break`, the loop goes on to the next param)
AfterCreateContinue(acc, o, idx, j) == SizeLoop(acc, o, idx, j + 1)

\* what follows the create of lines 293-301: `break`
AfterCreate(acc, o, idx, j) == acc

\* (variant of OnUnmapped: the loop goes on to the next param)
OnUnmappedContinue(acc, o, idx, j) == SizeLoop(acc, o, idx, j + 1)

\* lines 246-250: the size has no mapping, `break`
OnUnmapped(acc, o, idx, j) == acc

\* lines 241-302: the first size-type param decides
OnSizeParam(acc, o, idx, j) ==
    LET size_id == size_intertop_mapping(o.params[j].value)
        key == <<Get(categorized.all_products_map, o.article), size_id>>
    IN IF size_id = 0
       THEN OnUnmapped(acc, o, idx, j)
       ELSE IF key \in DOMAIN article_sizeID_mapping
                 /\ Truthy(article_sizeID_mapping[key].barcode)
            THEN OnFound(acc, o, idx, key)
            ELSE AfterCreate(OnMissing(acc, o, idx, key), o, idx, j)

\* `for param in offer.params`, from param j on
SizeLoop(acc, o, idx, j) ==
    IF j > Len(o.params) \/ Raised(acc)
    THEN acc
    ELSE IF o.params[j].name \in SizeNames
         THEN OnSizeParam(acc, o, idx, j)
         ELSE SizeLoop(acc, o, idx, j + 1)

\* (variant of PlanOffer: an article with no remote product is not skipped)
PlanOfferNoSkip(acc, o, idx) ==
    IF o.article \in categorized.vendorCodes_not_uploaded
    THEN SizeLoop(MarkNotUploaded(acc, o, idx), o, idx, 1)
    ELSE SizeLoop(acc, o, idx, 1)

\* one iteration of `for offer in self.catalog.offers`
PlanOffer(acc, o, idx) ==
    IF o.article \in categorized.articles_only_on_rozetka
    THEN acc
    ELSE IF o.article \in categorized.vendorCodes_not_uploaded
         THEN SizeLoop(MarkNotUploaded(acc, o, idx), o, idx, 1)
         ELSE SizeLoop(acc, o, idx, 1)

RECURSIVE PlanFrom(_, _)
\* the loop over the offers, from offer idx on
PlanFrom(acc, idx) ==
    IF idx > Len(offers) \/ Raised(acc) THEN acc
    ELSE PlanFrom(PlanOffer(acc, offers[idx], idx), idx + 1)

\* ---- _prepare_offer_deactivations

\* vendorCodes_articles_not_uploaded of lines 335-340, over the refreshed list
NotUploadedArticles(ps) ==
    {ps[i].article : i \in {k \in DOMAIN ps : ps[k].status \notin StableStatuses}}

\* (variant of ExistingKeys: the variants are read again, the created
\* ones among them)
ExistingKeysReread ==
    DOMAIN article_sizeID_mapping
        \cup {<<calls[k].article, calls[k].size_id>> :
                k \in {j \in DOMAIN calls : calls[j].op = "create"}}

\* existing_keys, line 342: the keys of the map loaded by __init__
ExistingKeys == DOMAIN article_sizeID_mapping

\* (variant of NotUpdatedKeys: the used keys are not taken out)
NotUpdatedKeysIgnoringUsed(ps, used) ==
    {key \in ExistingKeys : key[1] \notin NotUploadedArticles(ps)}

\* not_updated_offers_keys, lines 342-347
NotUpdatedKeys(ps, used) ==
    {key \in ExistingKeys \ used : key[1] \notin NotUploadedArticles(ps)}

\* self.article_sizeID_mapping.get(key, (None, None, None, None, None, None)),
\* lines 366-368
VariantOrNone(key) ==
    IF key \in DOMAIN article_sizeID_mapping
    THEN article_sizeID_mapping[key]
    ELSE [barcode |-> None, base_price_amount |-> None,
          discount_price_amount |-> None, product_status |-> None,
          offer_activity |-> None, quantity |-> None]

\* inactive_barcodes, lines 349-353
InactiveBarcodes ==
    {article_sizeID_mapping[k].barcode : k \in
        {key \in DOMAIN article_sizeID_mapping :
            /\ article_sizeID_mapping[key].offer_activity = FALSE
            /\ article_sizeID_mapping[key].product_status # "archived"}}

\* (variant of DeactivateTask: the prices are zeroed with the quantity)
DeactivateTaskZeroed(key) ==
    LET v == VariantOrNone(key)
    IN [article |-> key[1], barcode |-> v.barcode,
        base_price_amount |-> 0, discount_price_amount |-> 0,
        quantity |-> 0, activity |-> FALSE, key |-> key]

\* the tuple appended at lines 370-380 (key: the variant it is for)
DeactivateTask(key) ==
    LET v == VariantOrNone(key)
    IN [article |-> key[1], barcode |-> v.barcode,
        base_price_amount |-> v.base_price_amount,
        discount_price_amount |-> v.discount_price_amount,
        quantity |-> 0, activity |-> FALSE, key |-> key]

\* lines 355-381, visiting not_updated_offers_keys in the order `ord`
DeactivationTasks(ord) ==
    LET wanted == SelectSeq(ord, LAMBDA key :
                     VariantOrNone(key).barcode \notin InactiveBarcodes)
    IN [i \in DOMAIN wanted |-> DeactivateTask(wanted[i])]

\* ---- the remote side, as the run sees it

\* articles for which the run has requested the status draft
DraftRequested == {calls[i].article : i \in {k \in DOMAIN calls :
                      calls[k].op = "status" /\ calls[k].status = "draft"}}

\* the remote listing when the requests for the articles in `applied` took
\* effect: the engine is the only writer
RemoteListing(applied) ==
    [i \in DOMAIN products |->
        IF products[i].article \in applied
        THEN [products[i] EXCEPT !.status = "draft"]
        ELSE products[i]]

RECURSIVE GetProductsFrom(_, _, _, _)
\* get_products over `listing`, whose request number failAt (0: none) makes
\* make_request return None
GetProductsFrom(listing, off, failAt, acc) ==
    LET k == (off \div page_limit) + 1
        items == SubSeq(listing, off + 1, Min(Len(listing), off + page_limit))
        a == IF k = failAt THEN [kind |-> "none", n |-> 0]
             ELSE [kind |-> "page", n |-> Len(items)]
    IN IF ContinuesAfter(a)
       THEN GetProductsFrom(listing, NextOffset(off, a), failAt, acc \o items)
       ELSE acc

GetProducts(listing, failAt) == GetProductsFrom(listing, 0, failAt, <<>>)

\* ---- inputs of a run
MaxOffers == 2

VendorCodes == {"v1", "v2"}
LocalOnlyCodes == {"v3"}
ProductStatuses == {"uploaded", "moderate", "not_approved", "draft", "archived"}
OfferPrices == {10}
OfferDiscounts == {8}
OfferQuantities == {3}
RemotePrices == {10, 20}
RemoteDiscounts == {8, 9}
RemoteQuantities == {3, 4}
\* request numbers of the refresh at which make_request may return None
FailAts == {0, 1}

Param(name, value) == [name |-> name, value |-> value]
ParamLists ==
    { <<Param("size", "S")>>,
      <<Param("color", "red"), Param("zrist", " M "), Param("size", "S")>>,
      <<Param("size", "X"), Param("size", "S")>> }

\* offers of "v1" take every parameter list, the others the plain one
OfferDomain ==
    {o \in [article : VendorCodes \cup LocalOnlyCodes, params : ParamLists,
            price : OfferPrices, discount_price : OfferDiscounts,
            stock_quantity : OfferQuantities] :
        o.article = "v1" \/ o.params = <<Param("size", "S")>>}

Catalogs == UNION {[1..n -> OfferDomain] : n \in 0..MaxOffers}

ProductLists ==
    {<<[vendor_code |-> "v1", article |-> "A1", status |-> s1],
       [vendor_code |-> "v2", article |-> "A2", status |-> s2]>> :
        s1 \in ProductStatuses, s2 \in {"uploaded", "draft"}}

StatusOf(ps, article) ==
    ps[CHOOSE i \in DOMAIN ps : ps[i].article = article].status

\* what get_product_offers_async stores for one offer item of a product
Variant(ps, key, barcode, base, disc, active, qty) ==
    [barcode |-> barcode, base_price_amount |-> base,
     discount_price_amount |-> disc, product_status |-> StatusOf(ps, key[1]),
     offer_activity |-> active, quantity |-> qty]

\* barcodes are unique on the remote side
BarcodeOf == (<<"A1", 1>> :> "b11") @@ (<<"A1", 2>> :> "b12") @@ (<<"A2", 1>> :> "b21")

\* how many of its fields set a variant apart from the offers' values
Differences(base, disc, active, qty) ==
    (IF base \in OfferPrices THEN 0 ELSE 1) + (IF disc \in OfferDiscounts THEN 0 ELSE 1)
    + (IF active THEN 0 ELSE 1) + (IF qty \in OfferQuantities THEN 0 ELSE 1)

\* the variants a key may hold: for ("A1", 1) the offers' values or one
\* field apart from them, for ("A1", 2) the offers' values, for ("A2", 1)
\* the offers' values, active or not
VariantChoices(ps, key) ==
    IF key = <<"A1", 1>>
    THEN {Variant(ps, key, BarcodeOf[key], c[1], c[2], c[3], c[4]) :
            c \in {d \in RemotePrices \X RemoteDiscounts \X BOOLEAN \X RemoteQuantities :
                      Differences(d[1], d[2], d[3], d[4]) <= 1}}
    ELSE IF key = <<"A1", 2>>
         THEN {Variant(ps, key, BarcodeOf[key], 10, 8, TRUE, 3)}
         ELSE {Variant(ps, key, BarcodeOf[key], 10, 8, active, 3) : active \in BOOLEAN}

\* the variant maps async_load_wrapper may have built for `ps`: ("A2", 1)
\* with any subset of the keys of "A1"
VariantMaps(ps) ==
    UNION {{m \in [keys -> UNION {VariantChoices(ps, k) : k \in keys}] :
                \A k \in keys : m[k] \in VariantChoices(ps, k)} :
           keys \in {ks \in SUBSET DOMAIN BarcodeOf : <<"A2", 1>> \in ks}}

PlanInit ==
    /\ products \in ProductLists
    /\ article_sizeID_mapping \in VariantMaps(products)
    /\ offers \in Catalogs
    /\ ppc = "categorize"
    /\ categorized = None
    /\ articles_to_moderate = {}
    /\ vendorCodes_draft = <<>>
    /\ used_keys = {}
    /\ update_args = <<>>
    /\ deactivate_args = <<>>
    /\ calls = <<>>

PlanIdle ==
    /\ offers = <<>>
    /\ products = <<>>
    /\ article_sizeID_mapping = <<>>
    /\ ppc = "idle"
    /\ categorized = None
    /\ articles_to_moderate = {}
    /\ vendorCodes_draft = <<>>
    /\ used_keys = {}
    /\ update_args = <<>>
    /\ deactivate_args = <<>>
    /\ calls = <<>>

\* step 1: _categorize_intertop_products
DoCategorize ==
    /\ PlanOnly
    /\ ppc = "categorize"
    /\ categorized' = Categorize(products, offers)
    /\ ppc' = "prepass"
    /\ UNCHANGED <<offers, products, article_sizeID_mapping, articles_to_moderate,
                   vendorCodes_draft, used_keys, update_args, deactivate_args, calls>>

\* step 2: _handle_product_status_changes.  The list it appends to and
\* returns is the list categorized_products["vendorCodes_draft"] holds
\* (line 183 takes it out of the dict): the dict shows the appended codes.
DoPrePass ==
    /\ PlanOnly
    /\ ppc = "prepass"
    /\ \E ord \in Orders(ArticlesToArchive(categorized)) :
          LET r == HandleStatusChanges(categorized, ord)
          IN /\ articles_to_moderate' = r.moderate
             /\ vendorCodes_draft' = r.draft
             /\ categorized' = [categorized EXCEPT !.vendorCodes_draft = r.draft]
             /\ calls' = calls \o r.calls
    /\ ppc' = "plan"
    /\ UNCHANGED <<offers, products, article_sizeID_mapping,
                   used_keys, update_args, deactivate_args>>

\* step 3: _prepare_offer_updates.  It adds to the set and appends to the
\* list update_intertop passes in, the list being the one of the dict.
DoPlan ==
    /\ PlanOnly
    /\ ppc = "plan"
    /\ LET r == PlanFrom([moderate |-> articles_to_moderate,
                          draft |-> vendorCodes_draft,
                          used |-> {}, tasks |-> <<>>, calls |-> calls,
                          failAt |-> 0], 1)
       IN /\ articles_to_moderate' = r.moderate
          /\ vendorCodes_draft' = r.draft
          /\ categorized' = [categorized EXCEPT !.vendorCodes_draft = r.draft]
          /\ used_keys' = r.used
          /\ update_args' = r.tasks
          /\ calls' = r.calls
    /\ ppc' = "updates"
    /\ UNCHANGED <<offers, products, article_sizeID_mapping, deactivate_args>>

\* step 5: _prepare_offer_deactivations: refresh self.products, then plan
DoPrepareDeactivations ==
    /\ PlanOnly
    /\ ppc = "deactivations_plan"
    /\ \E applied \in SUBSET DraftRequested, failAt \in FailAts :
          LET refreshed == GetProducts(RemoteListing(applied), failAt)
          IN /\ products' = refreshed
             /\ \E ord \in Orders(NotUpdatedKeys(refreshed, used_keys)) :
                   deactivate_args' = DeactivationTasks(ord)
    /\ ppc' = "deactivations"
    /\ UNCHANGED <<offers, article_sizeID_mapping, categorized, articles_to_moderate,
                   vendorCodes_draft, used_keys, update_args, calls>>

\* step 7: _finalize_status_updates
DoFinalize ==
    /\ PlanOnly
    /\ ppc = "finalize"
    /\ \E ord \in Orders(articles_to_moderate) :
          calls' = calls \o [i \in DOMAIN ord |-> StatusCall(ord[i], "moderate", "post", 0)]
    /\ ppc' = "done"
    /\ UNCHANGED <<offers, products, article_sizeID_mapping, categorized,
                   articles_to_moderate, vendorCodes_draft, used_keys,
                   update_args, deactivate_args>>

(***************************************************************************)
(* _run_async_updates                      src/src/exporters/intertop.py   *)
(* The two batches of update_intertop (steps 4 and 6), run through         *)
(* run_all_offer_updates: asyncio.run is entered, the tasks of the batch   *)
(* take their steps in the event loop, asyncio.run returns.                *)
(***************************************************************************)
NoBatches == batches = <<>>

\* what a step of _run_async_updates leaves alone in the coordinator
BatchFrame ==
    UNCHANGED <<offers, products, article_sizeID_mapping, categorized,
                articles_to_moderate, vendorCodes_draft, used_keys,
                update_args, deactivate_args, calls>>

\* lines 313-315: no task, run_all_offer_updates is not called
SkipBatch(at, next, args) ==
    /\ BatchOnly
    /\ ppc = at
    /\ args = <<>>
    /\ ppc' = next
    /\ batches' = Append(batches, <<>>)
    /\ BatchFrame
    /\ UNCHANGED evars

\* concurrency_limit of run_all_offer_updates when the caller passes none,
\* as line 319 of the exporter does
DefaultLimit == 10

\* a batch that was refused: its tasks are where they were planned
NotRun(args) == [t \in 1..Len(args) |-> "pending"]
\* asyncio.run raises RuntimeError when, and only when, an event loop is
\* running in the calling thread; update_intertop is synchronous, so this
\* is the same for both batches of a run.  What the batches so far tell:
LoopSeenRunning ==
    \E b \in DOMAIN batches :
        batches[b] # <<>> /\ \A t \in DOMAIN batches[b] : batches[b][t] = "pending"
LoopSeenIdle ==
    \E b \in DOMAIN batches :
        batches[b] # <<>> /\ \E t \in DOMAIN batches[b] : batches[b][t] # "pending"

\* line 319: asyncio.run(run_all_offer_updates(tasks_args_list, ...)) is
\* entered, with no concurrency_limit; lines 591-600 of the sender build
\* the gate and one wrapper per element of the list
StartBatch(at, running, args) ==
    /\ BatchOnly
    /\ ppc = at
    /\ args # <<>>
    /\ ~LoopSeenRunning
    /\ ppc' = running
    /\ concurrency_limit' = DefaultLimit
    /\ sem' = DefaultLimit
    /\ waiters' = <<>>
    /\ woken' = {}
    /\ ntasks' = Len(args)
    /\ epc' = [t \in 1..Len(args) |-> "pending"]
    /\ mainpc' = "gathering"
    /\ BatchFrame
    /\ UNCHANGED batches

\* lines 319-323: asyncio.run raises RuntimeError before it runs the
\* coroutine (an event loop is running); the error is logged and
\* _run_async_updates returns: no task of the batch has been started
BatchRefused(at, next, args) ==
    /\ BatchOnly
    /\ ppc = at
    /\ args # <<>>
    /\ ~LoopSeenIdle
    /\ ppc' = next
    /\ batches' = Append(batches, NotRun(args))
    /\ BatchFrame
    /\ UNCHANGED evars

\* line 319: asyncio.run returns once run_all_offer_updates has returned
BatchReturned(running, next) ==
    /\ BatchOnly
    /\ ppc = running
    /\ mainpc = "returned"
    /\ ppc' = next
    /\ batches' = Append(batches, epc)
    /\ BatchFrame
    /\ UNCHANGED evars

\* step 4 of update_intertop
RunSkipUpdates == SkipBatch("updates", "deactivations_plan", update_args)
RunStartUpdates == StartBatch("updates", "updates_running", update_args)
RunUpdatesReturned == BatchReturned("updates_running", "deactivations_plan")
RunUpdatesRefused == BatchRefused("updates", "deactivations_plan", update_args)

\* step 6 of update_intertop
RunSkipDeactivations == SkipBatch("deactivations", "finalize", deactivate_args)
RunStartDeactivations == StartBatch("deactivations", "deactivations_running", deactivate_args)
RunDeactivationsReturned == BatchReturned("deactivations_running", "finalize")
RunDeactivationsRefused == BatchRefused("deactivations", "finalize", deactivate_args)

\* the inputs of SpecRun and SpecAbort: "v1" in a stable status
\* or archived (its offers are then offers of a product that is not
\* uploaded), "v2" uploaded, variants that differ from the offers in
\* quantity or activity, offers of "v1" alone
RunProductLists ==
    {ps \in ProductLists :
        ps[1].status \in {"uploaded", "moderate", "archived"} /\ ps[2].status = "uploaded"}
RunVariantMaps(ps) ==
    {m \in VariantMaps(ps) :
        \A k \in DOMAIN m : m[k].base_price_amount \in OfferPrices
                            /\ m[k].discount_price_amount \in OfferDiscounts}
RunCatalogs == {c \in Catalogs : \A i \in DOMAIN c : c[i].article = "v1"}

RunInit ==
    /\ products \in RunProductLists
    /\ article_sizeID_mapping \in RunVariantMaps(products)
    /\ offers \in RunCatalogs
    /\ ppc = "categorize"
    /\ categorized = None
    /\ articles_to_moderate = {}
    /\ vendorCodes_draft = <<>>
    /\ used_keys = {}
    /\ update_args = <<>>
    /\ deactivate_args = <<>>
    /\ calls = <<>>

\* the inputs of the runs over a catalog with data errors: offers of "v1",
\* of an article with no remote product and with no article at all; "v2"
\* has no offer; "v1" in a stable or an unstable status
DataProductLists ==
    {ps \in ProductLists : ps[1].status \in {"uploaded", "draft", "archived"}}
\* (available: the offer's availability flag; an offer out of stock is an
\* offer of "v1" with the plain parameter list)
DataOfferDomain ==
    {o \in [article : {"v1"} \cup LocalOnlyCodes \cup {None}, params : ParamLists,
            price : OfferPrices, discount_price : OfferDiscounts,
            stock_quantity : OfferQuantities, available : BOOLEAN] :
        /\ o.article = "v1" \/ o.params = <<Param("size", "S")>>
        /\ o.available \/ (o.article = "v1" /\ o.params = <<Param("size", "S")>>)}
DataCatalogs == UNION {[1..n -> DataOfferDomain] : n \in 0..MaxOffers}

DataInit ==
    /\ products \in DataProductLists
    /\ article_sizeID_mapping \in RunVariantMaps(products)
    /\ offers \in DataCatalogs
    /\ ppc = "categorize"
    /\ categorized = None
    /\ articles_to_moderate = {}
    /\ vendorCodes_draft = <<>>
    /\ used_keys = {}
    /\ update_args = <<>>
    /\ deactivate_args = <<>>
    /\ calls = <<>>

\* the steps of the tasks of a batch of update_intertop.  The gate has
\* DefaultLimit permits and a batch of these runs has fewer tasks, so
\* acquire() never finds the semaphore locked: no task waits at the gate.
RunExecNext ==
    \/ \E t \in Tasks : Admit(t)
    \/ \E t \in Tasks : TaskReturns(t)
    \/ \E t \in Tasks : TaskRaises(t)
    \/ \E t \in Tasks : TaskSleeps(t)
    \/ \E t \in Tasks : TaskWakes(t)
    \/ ExecReturns

RunNext ==
    \/ DoCategorize
    \/ DoPrePass
    \/ DoPlan
    \/ RunSkipUpdates
    \/ RunStartUpdates
    \/ RunUpdatesReturned
    \/ RunUpdatesRefused
    \/ DoPrepareDeactivations
    \/ RunSkipDeactivations
    \/ RunStartDeactivations
    \/ RunDeactivationsReturned
    \/ RunDeactivationsRefused
    \/ DoFinalize
    \/ RunExecNext

(***************************************************************************)
(* update_intertop when a synchronous call raises                          *)
(* change_product_status, create_offer_for_product and get_products call   *)
(* make_request with no try around it, and so do the steps of              *)
(* update_intertop: what make_request raises (requests.ConnectionError,    *)
(* requests.Timeout, the JSON error of a body that does not parse) leaves  *)
(* update_intertop at the call that met it.                                *)
(***************************************************************************)
\* the run ends at the last call of `issued`, whose make_request raised;
\* `drafts` is the list of the dict at that call.  The names update_intertop
\* has not bound yet keep their initial value.
RaisedAfter(issued, drafts) ==
    /\ calls' = issued
    /\ categorized' = [categorized EXCEPT !.vendorCodes_draft = drafts]
    /\ ppc' = "raised"
    /\ UNCHANGED <<offers, products, article_sizeID_mapping, used_keys,
                   update_args, deactivate_args>>

\* step 2, lines 192 and 198: call number k of the pre-pass raises.  Line
\* 191 has appended the vendor code of each archiving call issued; the set
\* and the list are not returned to update_intertop.
PrePassRaises ==
    /\ PlanOnly
    /\ ppc = "prepass"
    /\ \E ord \in Orders(ArticlesToArchive(categorized)) :
          LET r == HandleStatusChanges(categorized, ord)
          IN \E k \in 1..Len(r.calls) :
                RaisedAfter(calls \o SubSeq(r.calls, 1, k),
                            categorized.vendorCodes_draft
                                \o SubSeq(ord, 1, IF k < Len(ord) THEN k ELSE Len(ord)))
    /\ UNCHANGED <<articles_to_moderate, vendorCodes_draft>>

\* step 3, lines 237, 292 and 293: call number k of the run, a call of the
\* planning loop, raises.  The set and the list hold what the loop put in
\* them up to that call; the tasks and the used keys are not returned.
PlanRaises ==
    /\ PlanOnly
    /\ ppc = "plan"
    /\ LET whole == PlanFrom([moderate |-> articles_to_moderate,
                              draft |-> vendorCodes_draft,
                              used |-> {}, tasks |-> <<>>, calls |-> calls,
                              failAt |-> 0], 1)
       IN \E k \in (Len(calls) + 1)..Len(whole.calls) :
             LET r == PlanFrom([moderate |-> articles_to_moderate,
                                draft |-> vendorCodes_draft,
                                used |-> {}, tasks |-> <<>>, calls |-> calls,
                                failAt |-> k], 1)
             IN /\ RaisedAfter(r.calls, r.draft)
                /\ articles_to_moderate' = r.moderate
                /\ vendorCodes_draft' = r.draft

\* step 5, line 334: a page request of get_products raises
RefreshRaises ==
    /\ PlanOnly
    /\ ppc = "deactivations_plan"
    /\ RaisedAfter(calls, categorized.vendorCodes_draft)
    /\ UNCHANGED <<articles_to_moderate, vendorCodes_draft>>

\* step 7, line 392: call number k of the post-pass raises
FinalizeRaises ==
    /\ PlanOnly
    /\ ppc = "finalize"
    /\ \E ord \in Orders(articles_to_moderate) :
          \E k \in 1..Len(ord) :
             RaisedAfter(calls \o [i \in 1..k |-> StatusCall(ord[i], "moderate", "post", 0)],
                         categorized.vendorCodes_draft)
    /\ UNCHANGED <<articles_to_moderate, vendorCodes_draft>>

AbortNext ==
    \/ DoCategorize
    \/ DoPrePass
    \/ PrePassRaises
    \/ DoPlan
    \/ PlanRaises
    \/ RunSkipUpdates
    \/ RunStartUpdates
    \/ RunUpdatesReturned
    \/ RunUpdatesRefused
    \/ DoPrepareDeactivations
    \/ RefreshRaises
    \/ RunSkipDeactivations
    \/ RunStartDeactivations
    \/ RunDeactivationsReturned
    \/ RunDeactivationsRefused
    \/ DoFinalize
    \/ FinalizeRaises
    \/ RunExecNext

(***************************************************************************)
(* Specifications                                                          *)
(***************************************************************************)
InitTransport == TransportInit /\ SyncIdle /\ FetchIdle /\ ExecIdle /\ PlanIdle /\ NoBatches /\ AuthIdle
SpecTransport == InitTransport /\ [][TransportNext]_vars

InitSync == SyncInit /\ TransportIdle /\ FetchIdle /\ ExecIdle /\ PlanIdle /\ NoBatches /\ AuthIdle
SpecSync == InitSync /\ [][SyncNext]_vars

InitAuth ==
    AuthInit /\ TransportIdle /\ SyncIdle /\ FetchIdle /\ ExecIdle /\ PlanIdle /\ NoBatches
SpecAuth == InitAuth /\ [][AuthNext]_vars

InitFetch == FetchInit /\ TransportIdle /\ SyncIdle /\ ExecIdle /\ PlanIdle /\ NoBatches /\ AuthIdle
SpecFetch == InitFetch /\ [][FetchNext]_vars

InitExec == ExecInit /\ TransportIdle /\ SyncIdle /\ FetchIdle /\ PlanIdle /\ NoBatches /\ AuthIdle
SpecExec == InitExec /\ [][ExecNext]_vars

\* The event loop runs every coroutine that can run: a task reaches the
\* gate and enters or joins the waiters, a woken waiter resumes, a
\* sleeping task wakes, and a task in
\* its transport ends or reaches a sleep (each attempt ends within its 30 s
\* timeout, and the last attempt of a cycle sleeps).  Whether a request
\* ever succeeds is up to the server: no fairness on TaskReturns.
FairExec ==
    /\ \A t \in 1..MaxTasks :
          /\ WF_vars(t \in Tasks /\ (Admit(t) \/ AcquireWaits(t)))
          /\ WF_vars(t \in Tasks /\ AdmitWoken(t))
          /\ WF_vars(t \in Tasks /\ TaskSleeps(t))
          /\ WF_vars(t \in Tasks /\ TaskWakes(t))
    /\ WF_vars(ExecReturns)
SpecExecFair == InitExec /\ [][ExecNext]_vars /\ FairExec

\* The server answers: a task that issues requests again and again (its
\* transport retries after each sleep) eventually gets a 2xx or a 404 and
\* make_request_async returns.  The answer can only come while a request is
\* out, not during a sleep, hence strong fairness.
ServerAnswers ==
    \A t \in 1..MaxTasks : SF_vars(t \in Tasks /\ TaskReturns(t))
SpecExecLive == InitExec /\ [][ExecNext]_vars /\ FairExec /\ ServerAnswers

InitPlan == PlanInit /\ TransportIdle /\ SyncIdle /\ FetchIdle /\ ExecIdle /\ NoBatches /\ AuthIdle
SpecPlan == InitPlan /\ [][RunNext]_vars

InitRun == RunInit /\ TransportIdle /\ SyncIdle /\ FetchIdle /\ ExecIdle /\ NoBatches /\ AuthIdle
SpecRun == InitRun /\ [][RunNext]_vars

InitData ==
    DataInit /\ TransportIdle /\ SyncIdle /\ AuthIdle /\ FetchIdle /\ ExecIdle /\ NoBatches
SpecData == InitData /\ [][RunNext]_vars

InitAbort == RunInit /\ TransportIdle /\ SyncIdle /\ FetchIdle /\ ExecIdle /\ NoBatches /\ AuthIdle
SpecAbort == InitAbort /\ [][AbortNext]_vars


(***************************************************************************)
(* Properties                                                              *)
(***************************************************************************)
\* ---- vocabulary of the planning claims
\* _prepare_offer_updates has returned
Planned ==
    ppc \in {"updates", "updates_running", "deactivations_plan", "deactivations",
             "deactivations_running", "finalize", "done"}
\* _prepare_offer_deactivations has returned
DeactivationsPlanned ==
    ppc \in {"deactivations", "deactivations_running", "finalize", "done"}

SizeParams(o) == {j \in DOMAIN o.params : o.params[j].name \in SizeNames}
FirstSizeParam(o) == CHOOSE j \in SizeParams(o) : \A k \in SizeParams(o) : j <= k
\* the offer resolves to a key (article, remoteSizeId)
Resolves(o) ==
    /\ o.article \in DOMAIN categorized.all_products_map
    /\ SizeParams(o) # {}
    /\ size_intertop_mapping(o.params[FirstSizeParam(o)].value) # 0
ResolvedKey(o) ==
    <<categorized.all_products_map[o.article],
      size_intertop_mapping(o.params[FirstSizeParam(o)].value)>>
HasVariant(o) == ResolvedKey(o) \in DOMAIN article_sizeID_mapping
\* same base price, discount price and quantity, and active
FullyMatches(o) ==
    LET v == article_sizeID_mapping[ResolvedKey(o)]
    IN /\ v.base_price_amount = o.price
       /\ v.discount_price_amount = o.discount_price
       /\ v.quantity = o.stock_quantity
       /\ v.offer_activity = TRUE

TasksOf(i) == {k \in DOMAIN update_args : update_args[k].offer = i}
CallsOf(i) == {k \in DOMAIN calls : calls[k].offer = i}
CreatesOf(i) == {k \in CallsOf(i) : calls[k].op = "create"}
ModerateCallsFor(article) ==
    {k \in DOMAIN calls : calls[k] = StatusCall(article, "moderate", "post", 0)}
DeactivationsOf(key) == {k \in DOMAIN deactivate_args : deactivate_args[k].key = key}
\* the product of `article` has a stable status in self.products
StableInSnapshot(article) ==
    \E i \in DOMAIN products :
        products[i].article = article /\ products[i].status \in StableStatuses

\* C1 (as stated): an offer that fully matches its remote variant yields no
\* task and no remote call at all, and its key is in the used set.
C1_MatchNoTaskNoCall ==
    Planned =>
        \A i \in DOMAIN offers :
            (Resolves(offers[i]) /\ HasVariant(offers[i]) /\ FullyMatches(offers[i]))
            => /\ TasksOf(i) = {}
               /\ CallsOf(i) = {}
               /\ ResolvedKey(offers[i]) \in used_keys

\* C1 (amended): an offer that fully matches its remote variant yields no
\* task and no create call, and its key is in the used set; it issues no
\* remote call unless its article is in notUploaded, and then the article
\* is put in the pending-moderation set and at most one call is issued, the
\* transition of the article to draft.
C1_MatchNoTaskNoCreate ==
    Planned =>
        \A i \in DOMAIN offers :
            (Resolves(offers[i]) /\ HasVariant(offers[i]) /\ FullyMatches(offers[i]))
            => /\ TasksOf(i) = {}
               /\ CreatesOf(i) = {}
               /\ ResolvedKey(offers[i]) \in used_keys
               /\ Cardinality(CallsOf(i)) <= 1
               /\ \A k \in CallsOf(i) :
                     /\ calls[k] = StatusCall(ResolvedKey(offers[i])[1], "draft", "plan", i)
                     /\ offers[i].article \in categorized.vendorCodes_not_uploaded
               /\ offers[i].article \in categorized.vendorCodes_not_uploaded
                     => ResolvedKey(offers[i])[1] \in articles_to_moderate

\* C1 witness: a fully matching offer whose planning step moved its
\* article to draft.
C1_Witness ==
    /\ Planned
    /\ \E i \in DOMAIN offers :
          /\ Resolves(offers[i]) /\ HasVariant(offers[i]) /\ FullyMatches(offers[i])
          /\ ResolvedKey(offers[i]) \in used_keys
          /\ CallsOf(i) # {}

\* C2: an offer whose resolved key has no remote variant yields exactly one
\* create call, for that key and with the offer's values; its article is in
\* the pending-moderation set, and the post-pass returns that article to
\* moderate exactly once, however many offers of the article created.
C2_MissingCreatesOnce ==
    Planned =>
        \A i \in DOMAIN offers :
            (Resolves(offers[i]) /\ ~HasVariant(offers[i]))
            => /\ Cardinality(CreatesOf(i)) = 1
               /\ \A k \in CreatesOf(i) :
                     calls[k] = CreateCall(offers[i], i, ResolvedKey(offers[i])[1],
                                           ResolvedKey(offers[i])[2])
               /\ TasksOf(i) = {}
               /\ ResolvedKey(offers[i])[1] \in articles_to_moderate
               /\ ppc = "done" =>
                     Cardinality(ModerateCallsFor(ResolvedKey(offers[i])[1])) = 1

\* C2 witness: two offers of one article, of different sizes, each created
\* its variant, and the run has finished.
C2_Witness ==
    /\ ppc = "done"
    /\ \E i, j \in DOMAIN offers :
          /\ i # j
          /\ Resolves(offers[i]) /\ Resolves(offers[j])
          /\ ResolvedKey(offers[i])[1] = ResolvedKey(offers[j])[1]
          /\ ResolvedKey(offers[i])[2] # ResolvedKey(offers[j])[2]
          /\ CreatesOf(i) # {} /\ CreatesOf(j) # {}

\* C3: an offer whose remote variant exists but differs in base price,
\* discount price, quantity or active flag yields exactly one update task,
\* for that variant and carrying the offer's price, discount price and
\* quantity, and its key is in the used set.
C3_MismatchUpdatesOnce ==
    Planned =>
        \A i \in DOMAIN offers :
            (Resolves(offers[i]) /\ HasVariant(offers[i]) /\ ~FullyMatches(offers[i]))
            => /\ Cardinality(TasksOf(i)) = 1
               /\ \A k \in TasksOf(i) :
                     /\ update_args[k].article = ResolvedKey(offers[i])[1]
                     /\ update_args[k].barcode =
                            article_sizeID_mapping[ResolvedKey(offers[i])].barcode
                     /\ update_args[k].base_price_amount = offers[i].price
                     /\ update_args[k].discount_price_amount = offers[i].discount_price
                     /\ update_args[k].quantity = offers[i].stock_quantity
               /\ CreatesOf(i) = {}
               /\ ResolvedKey(offers[i]) \in used_keys

\* C3 witness: an offer whose variant differs in the quantity alone got
\* its update task.
C3_Witness ==
    /\ Planned
    /\ \E i \in DOMAIN offers :
          /\ Resolves(offers[i]) /\ HasVariant(offers[i])
          /\ LET v == article_sizeID_mapping[ResolvedKey(offers[i])]
             IN /\ v.base_price_amount = offers[i].price
                /\ v.discount_price_amount = offers[i].discount_price
                /\ v.offer_activity = TRUE
                /\ v.quantity # offers[i].stock_quantity
          /\ TasksOf(i) # {}

\* C4: for a remote variant key left out of the used set whose product has
\* a stable status in the refreshed snapshot, the deactivation planner emits
\* exactly one task with quantity 0, active false and the variant's own
\* prices when the variant is active, and no task when it is inactive.
C4_UnusedDeactivatedOnce ==
    DeactivationsPlanned =>
        \A key \in DOMAIN article_sizeID_mapping :
            (key \notin used_keys /\ StableInSnapshot(key[1]))
            => IF article_sizeID_mapping[key].offer_activity
               THEN /\ Cardinality(DeactivationsOf(key)) = 1
                    /\ \A k \in DeactivationsOf(key) :
                          LET v == article_sizeID_mapping[key]
                          IN /\ deactivate_args[k].article = key[1]
                             /\ deactivate_args[k].barcode = v.barcode
                             /\ deactivate_args[k].quantity = 0
                             /\ deactivate_args[k].activity = FALSE
                             /\ deactivate_args[k].base_price_amount = v.base_price_amount
                             /\ deactivate_args[k].discount_price_amount
                                   = v.discount_price_amount
               ELSE DeactivationsOf(key) = {}

\* C4 witness: an active unused variant of a stable product got its task
\* while an inactive unused variant of a stable product got none.
C4_Witness ==
    /\ DeactivationsPlanned
    /\ \E k1, k2 \in DOMAIN article_sizeID_mapping :
          /\ k1 \notin used_keys /\ k2 \notin used_keys
          /\ StableInSnapshot(k1[1]) /\ StableInSnapshot(k2[1])
          /\ article_sizeID_mapping[k1].offer_activity
          /\ ~article_sizeID_mapping[k2].offer_activity
          /\ article_sizeID_mapping[k1].base_price_amount \notin OfferPrices
          /\ DeactivationsOf(k1) # {}
          /\ DeactivationsOf(k2) = {}

\* C5 (as stated): every deactivation task targets a variant whose product
\* has a stable status in the refreshed product snapshot, also when the
\* refresh was truncated or empty.
C5_DeactivationsOnlyStable ==
    DeactivationsPlanned =>
        \A k \in DOMAIN deactivate_args : StableInSnapshot(deactivate_args[k].article)

\* ---- run_all_offer_updates
GateHolders == {t \in Tasks : epc[t] \in {"request", "sleep"}}

\* C6: at most concurrency_limit tasks hold the gate (a request in flight
\* or a sleep inside the transport) at any time.
C6_GateCap == Cardinality(GateHolders) <= concurrency_limit

\* C6 witness: more tasks than permits, the gate full with one holder
\* asleep in the transport, and a task kept waiting.
C6_Witness ==
    /\ ntasks > concurrency_limit
    /\ Cardinality(GateHolders) = concurrency_limit
    /\ \E t \in Tasks : epc[t] = "sleep"
    /\ \E t \in Tasks : epc[t] = "pending"
    /\ \E t \in Tasks : epc[t] = "done"

\* ---- make_request_async
\* C7 (as stated): the call ends only on a 2xx response or a 404; after
\* any other outcome (429, other status, connection error, timeout,
\* used-up cycle) it is still requesting or sleeping, with attempts left
\* to make.
C7_NeverAbandoned ==
    /\ tpc \in {"returned", "raised"} => tlast \in {"ok", "empty", "malformed", "404"}
    /\ tlast \in {"429", "http", "conn", "other"} =>
          (tpc \in {"request", "sleep"} /\ ti < retries)

\* C8 (as stated): the attempt that follows the sleep of a 429 does not
\* consume the retry budget of the cycle: it runs with the loop index the
\* 429 was received at.
C8_BudgetKeptAfter429 ==
    [][(tpc = "sleep" /\ tsleepAt = "429") => (tpc' = "request" /\ ti' = ti)]_vars

\* C9: after a 404 the call has returned absent, with no sleep and no
\* further attempt behind the 404.
C9_NotFoundReturnsAtOnce ==
    tlast = "404" => (tpc = "returned" /\ tresult = "none" /\ tslept = 0)

\* C9 witness: a 404 received after earlier failed attempts and a used-up
\* cycle.
C9_Witness ==
    /\ tlast = "404"
    /\ tpc = "returned"
    /\ ti > 0
    /\ tdelay > sleep_time * TicksPerSecond

\* ---- get_products
\* the first request that is answered by an empty page or by None
RECURSIVE FirstStopFrom(_)
FirstStopFrom(k) ==
    IF k > Len(script) \/ script[k].kind # "page" \/ script[k].n = 0
    THEN k ELSE FirstStopFrom(k + 1)
FirstStop == FirstStopFrom(1)
StopsOnEmptyPage == FirstStop > Len(script) \/ script[FirstStop].kind = "page"
RECURSIVE ItemsBefore(_)
\* the items of the pages 1..k, in order
ItemsBefore(k) ==
    IF k = 0 THEN <<>>
    ELSE ItemsBefore(k - 1) \o PageItems((k - 1) * page_limit, script[k].n)

\* C10: the offsets requested are 0, 300, 600, ... in this order; when the
\* first stop is an empty page, the result is the concatenation of the
\* pages before it, whatever their sizes, and the empty page is the last
\* request.
C10_Pagination ==
    /\ requested = [k \in 1..Len(requested) |-> (k - 1) * page_limit]
    /\ (fpc = "returned" /\ StopsOnEmptyPage) =>
          /\ all_products = ItemsBefore(FirstStop - 1)
          /\ Len(requested) = FirstStop

\* C10 witness: pages of 300, 300, 137 and 0 items gave 737 items in 4
\* requests.
C10_Witness ==
    /\ fpc = "returned"
    /\ Len(script) = 4
    /\ script[1].n = 300 /\ script[2].n = 300 /\ script[3].n = 137
    /\ script[4].kind = "page" /\ script[4].n = 0
    /\ Len(all_products) = 737
    /\ Len(requested) = 4

\* C11 (as stated): when a page request fails, whether make_request gave
\* up on HTTP errors or met a connection error or timeout, get_products
\* does not raise: it returns the items of the pages fetched before the
\* failure, in order, and the failed request is its last one.
C11_FailureTruncates ==
    /\ fpc # "raised"
    /\ (fpc = "returned" /\ ~StopsOnEmptyPage) =>
          /\ all_products = ItemsBefore(FirstStop - 1)
          /\ Len(requested) = FirstStop

\* ---- the categorizer's buckets, each as a set of vendor codes
\* the categorizer has just returned
Categorized == ppc = "prepass"
RemoteCodes == DOMAIN categorized.all_products_map
NotUploadedBucket == categorized.vendorCodes_not_uploaded
DraftBucket == Range(categorized.vendorCodes_draft)
ModerateBucket ==
    {vc \in RemoteCodes :
        categorized.all_products_map[vc] \in Range(categorized.articles_moderate)}
NotApprovedBucket == categorized.vendorCodes_not_approved
RemoteOnlyBucket == categorized.vendorCodes_only_on_intertop
LocalOnlyBucket == categorized.articles_only_on_rozetka
Buckets ==
    <<NotUploadedBucket, DraftBucket, ModerateBucket, NotApprovedBucket,
      RemoteOnlyBucket, LocalOnlyBucket>>
\* remote products that are in the local catalog with status uploaded
SettledCodes ==
    {vc \in RemoteCodes \cap LocalArticles(offers) :
        StatusOf(products, categorized.all_products_map[vc]) \in {"uploaded", "approved"}}

\* C12 (as stated): the six buckets of the categorizer are pairwise
\* disjoint and their union covers every remote article.
C12_BucketsPartition ==
    Categorized =>
        /\ \A i, j \in DOMAIN Buckets : i # j => Buckets[i] \cap Buckets[j] = {}
        /\ RemoteCodes \subseteq UNION Range(Buckets)

\* C12 (amended): the buckets are no partition.  draftList is a part of
\* notUploaded; notUploaded, moderateArticles and notApprovedArticles are
\* pairwise disjoint; notApprovedArticles is disjoint from remoteOnly;
\* localOnly is disjoint from every remote bucket; and the remote articles
\* in no bucket are those of the local catalog whose status is uploaded or
\* approved.
C12_BucketRelations ==
    Categorized =>
        /\ DraftBucket \subseteq NotUploadedBucket
        /\ NotUploadedBucket \cap ModerateBucket = {}
        /\ NotUploadedBucket \cap NotApprovedBucket = {}
        /\ ModerateBucket \cap NotApprovedBucket = {}
        /\ NotApprovedBucket \cap RemoteOnlyBucket = {}
        /\ LocalOnlyBucket \cap RemoteCodes = {}
        /\ \A i \in 1..5 : Buckets[i] \subseteq RemoteCodes
        /\ RemoteCodes \ UNION Range(Buckets) = SettledCodes

\* C12 witness: a draft product outside the local catalog lies in three
\* buckets at once, next to a not-approved product of the local catalog.
C12_Witness ==
    /\ Categorized
    /\ DraftBucket \cap NotUploadedBucket \cap RemoteOnlyBucket # {}
    /\ NotApprovedBucket # {}

\* C13 (as stated): draftList, moderateArticles and notApprovedArticles
\* hold only articles present both in the remote snapshot and in the local
\* catalog, so none of them meets remoteOnly.
C13_MatchedBucketsAreLocal ==
    Categorized =>
        /\ DraftBucket \cup ModerateBucket \cup NotApprovedBucket
                \subseteq RemoteCodes \cap LocalArticles(offers)
        /\ RemoteOnlyBucket \cap DraftBucket = {}
        /\ RemoteOnlyBucket \cap ModerateBucket = {}
        /\ RemoteOnlyBucket \cap NotApprovedBucket = {}

\* ---- the pre-pass
\* the pre-pass has just returned
PrePassDone == ppc = "plan"
\* articles of the remote products outside the local catalog whose status
\* is stable: remoteOnly minus notUploaded
StaleArticles ==
    {products[i].article : i \in {k \in DOMAIN products :
        /\ products[k].vendor_code \notin LocalArticles(offers)
        /\ products[k].status \in StableStatuses}}
\* articles whose snapshot status is moderate
ModerateArticles ==
    {products[i].article : i \in {k \in DOMAIN products : products[k].status = "moderate"}}
DraftCallsFor(article) ==
    {k \in DOMAIN calls : calls[k] = StatusCall(article, "draft", "prepass", 0)}

\* C14: the pre-pass requests a transition to draft for every article of
\* remoteOnly minus notUploaded and for every article whose status is
\* moderate, requests nothing else, and returns exactly the moderate
\* articles as the pending-moderation set.
C14_PrePass ==
    PrePassDone =>
        /\ \A a \in StaleArticles \cup ModerateArticles : DraftCallsFor(a) # {}
        /\ \A k \in DOMAIN calls :
              \E a \in StaleArticles \cup ModerateArticles : k \in DraftCallsFor(a)
        /\ Len(calls) = Cardinality(StaleArticles) + Cardinality(ModerateArticles)
        /\ articles_to_moderate = ModerateArticles

\* C14 witness: the pre-pass drafted a stale uploaded product and a
\* moderate product of the local catalog.
C14_Witness ==
    /\ PrePassDone
    /\ StaleArticles \ ModerateArticles # {}
    /\ ModerateArticles \ StaleArticles # {}
    /\ Len(calls) = 2

\* ---- the phases of a run
Terminal == {"done", "failed"}
\* some task of the batch in the executor has not reached its outcome
TasksRunning == mainpc = "gathering" /\ \E t \in Tasks : epc[t] \notin Terminal
\* batch b has returned with every task of `args` at a terminal outcome
BatchComplete(b, args) ==
    /\ Len(batches) >= b
    /\ Len(batches[b]) = Len(args)
    /\ \A t \in DOMAIN batches[b] : batches[b][t] \in Terminal
ModerateCalls ==
    {k \in DOMAIN calls : calls[k].op = "status" /\ calls[k].status = "moderate"}
CreateCalls == {k \in DOMAIN calls : calls[k].op = "create"}
\* the articles planning adds to the pending-moderation set: those of the
\* offers whose article is in notUploaded and those a variant was created for
AddedWhilePlanning ==
    {calls[k].article : k \in CreateCalls}
        \cup {categorized.all_products_map[offers[i].article] :
                i \in {j \in DOMAIN offers :
                          offers[j].article \in categorized.vendorCodes_not_uploaded}}

\* C15 (as stated): a transition to moderate is requested only when the
\* run is in its post-pass, with both batches returned and all their
\* tasks terminal, and after every create; at the end of the run each article of the
\* pending-moderation set (the moderate articles of the pre-pass and those
\* added while planning) has exactly one such request, and no other
\* article has one.
C15_PostPass ==
    /\ ModerateCalls # {} =>
          /\ ppc = "done"
          /\ ~TasksRunning
          /\ BatchComplete(1, update_args)
          /\ BatchComplete(2, deactivate_args)
          /\ \A k \in ModerateCalls : \A j \in CreateCalls : j < k
    /\ ppc = "done" =>
          /\ \A a \in articles_to_moderate : Cardinality(ModerateCallsFor(a)) = 1
          /\ \A k \in ModerateCalls : calls[k].article \in articles_to_moderate
          /\ articles_to_moderate =
                Range(categorized.articles_moderate) \cup AddedWhilePlanning

\* C17 (as stated): tasks run only while the coordinator waits in
\* _run_async_updates; run_all_offer_updates returns only with every
\* task terminal; the refresh, the deactivation planning and the deactivation batch come after
\* the update batch has returned complete, and the post-pass after the
\* deactivation batch has.
C17_PhaseBarrier ==
    /\ mainpc = "returned" => \A t \in Tasks : epc[t] \in Terminal
    /\ TasksRunning => ppc \in {"updates_running", "deactivations_running"}
    /\ ppc \in {"categorize", "prepass", "plan", "updates", "updates_running"} =>
          /\ batches = <<>>
          /\ deactivate_args = <<>>
    /\ ppc \in {"deactivations_plan", "deactivations", "deactivations_running"} =>
          /\ Len(batches) = 1
          /\ BatchComplete(1, update_args)
    /\ ppc \in {"finalize", "done"} =>
          /\ Len(batches) = 2
          /\ BatchComplete(1, update_args)
          /\ BatchComplete(2, deactivate_args)

\* ---- the variant snapshot
CreatedKeys == {<<calls[k].article, calls[k].size_id>> : k \in CreateCalls}
DeactivatedKeys == {deactivate_args[k].key : k \in DOMAIN deactivate_args}

\* C16 (as stated): the variant snapshot is re-read after the update
\* phase, so every variant created during the run is among existingKeys
\* when the deactivations are planned.
C16_CreatedVariantsReread ==
    DeactivationsPlanned => CreatedKeys \subseteq ExistingKeys

\* C16 (amended): only the product list is re-read.  existingKeys are the
\* keys of the variant map loaded at construction: no variant created
\* during the run is among them, and every deactivation task is for a key
\* of that map.
C16_VariantSnapshotReadOnce ==
    /\ Planned => CreatedKeys \cap ExistingKeys = {}
    /\ DeactivationsPlanned =>
          /\ DeactivatedKeys \subseteq DOMAIN article_sizeID_mapping
          /\ DeactivatedKeys \cap CreatedKeys = {}

\* C16 witness: deactivations were planned in a run that had created a
\* variant.
C16_Witness ==
    /\ DeactivationsPlanned
    /\ CreatedKeys # {}
    /\ DeactivatedKeys # {}

\* C18 (as stated): whatever tasks fail, by raising or by never getting a
\* successful response, every other task is still admitted through the
\* gate.
C18_SiblingsAdmitted ==
    \A t \in 1..MaxTasks :
        (t \in Tasks /\ epc[t] = "pending") ~> (t \notin Tasks \/ epc[t] # "pending")

\* the size-type params of the offer whose label has a remote size id
MappedSizeParams(o) ==
    {j \in SizeParams(o) : size_intertop_mapping(o.params[j].value) # 0}

\* C19: each local offer contributes at most one operation, a create call
\* or an update task, also when it carries several size-type params.
C19_AtMostOneOperation ==
    Planned =>
        \A i \in DOMAIN offers :
            Cardinality(TasksOf(i)) + Cardinality(CreatesOf(i)) <= 1

\* C19 witness: an offer with two size-type params of known sizes, the
\* first without a remote variant and the second with a variant that
\* differs, got its one create call and nothing else.
C19_Witness ==
    /\ Planned
    /\ \E i \in DOMAIN offers :
          /\ Cardinality(MappedSizeParams(offers[i])) >= 2
          /\ Resolves(offers[i])
          /\ ~HasVariant(offers[i])
          /\ \E j \in MappedSizeParams(offers[i]) :
                LET key == <<ResolvedKey(offers[i])[1],
                             size_intertop_mapping(offers[i].params[j].value)>>
                IN /\ key \in DOMAIN article_sizeID_mapping
                   /\ article_sizeID_mapping[key].quantity # offers[i].stock_quantity
          /\ Cardinality(CreatesOf(i)) = 1
          /\ TasksOf(i) = {}

\* ---- make_request
\* C20 (as stated): the synchronous transport makes at most `retries`
\* attempts, has waited the fixed delay between any two consecutive
\* attempts, returns the parsed JSON of the first successful attempt, and
\* after a failed attempt (HTTP error status, connection error, timeout)
\* it never raises.
C20_SyncRetryContract ==
    /\ sattempts <= sync_retries
    /\ sattempts >= 1 => sslept >= sync_sleep_time * (sattempts - 1)
    /\ (spc = "returned" /\ sresult = "json") =>
          /\ sscript[sattempts] = "ok"
          /\ \A k \in 1..(sattempts - 1) : sscript[k] \in {"http", "429"}
    /\ spc = "raised" => sscript[sattempts] \notin {"http", "429", "conn"}


\* ---- failures of remote calls
\* C21 (as stated): update_intertop is never left by an exception of a
\* remote call: whatever a call meets, the run goes on to its next step.
C21_RunGoesOn == ppc # "raised"

\* ---- auth
\* C22 (as stated): auth never raises; it returns either the pair (token,
\* expiry) or (None, None), never a pair with one side absent; and it
\* returns the pair only for a successful answer that carries a string
\* token and an integer expiry.
C22_AuthContract ==
    /\ apc # "raised"
    /\ apc = "returned" =>
          /\ (aresult.token = None) <=> (aresult.expires_date = None)
          /\ aresult.token # None =>
                /\ aresponse.net = "answered"
                /\ aresponse.status < 400
                /\ aresponse.body.json
                /\ IsStr(aresponse.body.token)
                /\ IsInt(aresponse.body.expires_date)

\* ---- remote calls of categorization and planning
PlanCalls == {k \in DOMAIN calls : calls[k].phase = "plan"}
PlanDraftCalls == {k \in PlanCalls : calls[k].op = "status"}

\* C23 (as stated): nothing is requested from the remote side while the
\* run categorizes and plans: the planning loop leaves no remote call.
C23_PlanningIsLocal == PlanCalls = {}

\* C23 (amended): categorization issues no remote call, and the planning
\* loop issues synchronous calls of two kinds only, each for an offer whose
\* article has a remote product: a create, or a transition to draft of the
\* article of an offer that is notUploaded or whose variant is created,
\* requested by the loop at most once per article.
C23_PlanningCallsSynchronous ==
    /\ ppc \in {"categorize", "prepass"} => calls = <<>>
    /\ \A k \in PlanCalls :
          /\ calls[k].offer \in DOMAIN offers
          /\ offers[calls[k].offer].article \notin categorized.articles_only_on_rozetka
          /\ \/ calls[k].op = "create"
             \/ /\ calls[k].op = "status"
                /\ calls[k].status = "draft"
                /\ \/ offers[calls[k].offer].article \in categorized.vendorCodes_not_uploaded
                   \/ CreatesOf(calls[k].offer) # {}
    /\ \A j, k \in PlanDraftCalls : calls[j].article = calls[k].article => j = k

\* C23 witness: the planning loop has moved an article to draft for an
\* offer that is notUploaded and has created its variant, after an offer
\* with no article.
C23_Witness ==
    /\ ppc = "updates"
    /\ \E k \in PlanDraftCalls :
          /\ offers[calls[k].offer].article \in categorized.vendorCodes_not_uploaded
          /\ \E j \in PlanCalls :
                /\ calls[j].op = "create"
                /\ calls[j].article = calls[k].article
          /\ \E i \in 1..(calls[k].offer - 1) : offers[i].article = None

\* ---- rate limiting and waiting
\* C24 (as stated), for make_request: by the time an attempt follows a 429
\* the transport has slept, and a call whose attempts all met a 429 does
\* not end with an absent result.
C24_Sync429Honoured ==
    /\ \A k \in 1..(sattempts - 1) : sscript[k] = "429" => sslept > 0
    /\ (spc = "returned" /\ \A k \in 1..sattempts : sscript[k] = "429") =>
          sresult # "none"

\* C25 (as stated), for make_request_async: an attempt that follows a
\* failed one (a status other than 404 and 429, a connection error, a
\* timeout) is made only after a sleep.
C25_SleepAfterFailure ==
    (tpc = "request" /\ tlast \in {"http", "conn"}) => tslept > 0

\* the for loop of make_request_async has used up range(retries): the call
\* goes into the sleep of line 537
CycleExhausted == tsleepAt # "cycle" /\ tsleepAt' = "cycle"

\* C26: the delay of make_request_async starts at sleep_time; a used-up
\* cycle multiplies it by backoff_factor, up to 300 seconds, and nothing
\* else changes it; it never decreases, never exceeds 300 seconds, and
\* stays at 300 seconds once there.
C26_DelayGrowth ==
    /\ tdelay = sleep_time * TicksPerSecond
    /\ [][/\ tdelay <= tdelay'
          /\ tdelay' <= max_delay * TicksPerSecond
          /\ tdelay = max_delay * TicksPerSecond => tdelay' = tdelay
          /\ IF CycleExhausted
             THEN IF tdelay * backoff_num <= max_delay * TicksPerSecond * backoff_den
                  THEN tdelay' * backoff_den = tdelay * backoff_num
                  ELSE tdelay' = max_delay * TicksPerSecond
             ELSE tdelay' = tdelay]_vars

\* C26 witness: the delay has reached 300 seconds, and the call has used
\* up one more cycle at that delay and is requesting again.
C26_Witness ==
    /\ tdelay = max_delay * TicksPerSecond
    /\ tpc = "request"
    /\ ti = 0
    /\ tslept >= 2 * max_delay * TicksPerSecond

\* ---- data errors in the planning loop
\* the offer's article has no remote product (an offer with no article too)
IsLocalOnly(i) == offers[i].article \in categorized.articles_only_on_rozetka

\* C27: once planning has returned, an offer whose article is localOnly,
\* an offer with no article included, has no update task and no remote
\* call; nothing of it is in the used set, the pending-moderation set or
\* the draft list; and the offers around it are planned as usual: every
\* other offer that resolves to an existing variant has its key used.
C27_LocalOnlySkipped ==
    Planned =>
        /\ \A i \in DOMAIN offers :
              IsLocalOnly(i) =>
                 /\ TasksOf(i) = {}
                 /\ CallsOf(i) = {}
                 /\ offers[i].article \notin Range(vendorCodes_draft)
        /\ None \notin articles_to_moderate
        /\ \A key \in used_keys : key[1] # None
        /\ \A i \in DOMAIN offers :
              (~IsLocalOnly(i) /\ Resolves(offers[i]) /\ HasVariant(offers[i])) =>
                 ResolvedKey(offers[i]) \in used_keys

\* C27 witness: an offer with no article was skipped and the offer after
\* it got its update task.
C27_Witness ==
    /\ Planned
    /\ \E i, j \in DOMAIN offers :
          /\ i < j
          /\ offers[i].article = None
          /\ IsLocalOnly(i)
          /\ TasksOf(j) # {}

\* the offer's size label, its first size-type param, has no entry in the
\* size mapping table
SizeUnmapped(o) ==
    /\ SizeParams(o) # {}
    /\ size_intertop_mapping(o.params[FirstSizeParam(o)].value) = 0

\* C28: once planning has returned, an offer whose size label is unmapped
\* has no update task and no create call, also when a later param of it
\* carries a mapped size; the used set holds the keys of the offers that
\* resolve to an existing variant and no other key; and the offers after
\* it are planned as usual.
C28_UnmappedSizeSkipped ==
    Planned =>
        /\ \A i \in DOMAIN offers :
              SizeUnmapped(offers[i]) => (TasksOf(i) = {} /\ CreatesOf(i) = {})
        /\ used_keys =
              {ResolvedKey(offers[i]) : i \in {k \in DOMAIN offers :
                  /\ ~IsLocalOnly(k)
                  /\ Resolves(offers[k])
                  /\ HasVariant(offers[k])}}

\* C28 witness: an offer whose first size is unmapped and whose second
\* size names an existing variant was passed over, that variant is not in
\* the used set, and the offer after it had its own key recorded as used.
C28_Witness ==
    /\ Planned
    /\ \E i, j \in DOMAIN offers :
          /\ i < j
          /\ ~IsLocalOnly(i)
          /\ SizeUnmapped(offers[i])
          /\ MappedSizeParams(offers[i]) # {}
          /\ <<categorized.all_products_map[offers[i].article], 1>>
                \in DOMAIN article_sizeID_mapping \ used_keys
          /\ Resolves(offers[j])
          /\ ResolvedKey(offers[j]) \in used_keys

\* ---- the archive set
\* remote products outside the local catalog whose snapshot status is not
\* a stable one: draft, or a code the engine does not know
UnstableRemoteOnly ==
    {k \in DOMAIN products :
        /\ products[k].vendor_code \notin LocalArticles(offers)
        /\ products[k].status \notin StableStatuses}

\* the draft list of the snapshot, as line 123 builds it from the products
SnapshotDrafts == Categorize(products, offers).vendorCodes_draft

\* C29: when the pre-pass has returned, the draft list is the snapshot's
\* draft list followed by the vendor codes of remoteOnly minus
\* notUploaded, each once, and no transition to draft has been requested
\* for a remote-only article whose snapshot status is draft or an
\* unrecognized code.
C29_ArchiveSet ==
    PrePassDone =>
        /\ SubSeq(vendorCodes_draft, 1, Len(SnapshotDrafts)) = SnapshotDrafts
        /\ {vendorCodes_draft[n] :
                n \in (Len(SnapshotDrafts) + 1)..Len(vendorCodes_draft)}
              = categorized.vendorCodes_only_on_intertop \ categorized.vendorCodes_not_uploaded
        /\ Len(vendorCodes_draft) = Len(SnapshotDrafts)
              + Cardinality(categorized.vendorCodes_only_on_intertop
                                \ categorized.vendorCodes_not_uploaded)
        /\ \A k \in UnstableRemoteOnly :
              \A n \in DOMAIN calls : calls[n].article # products[k].article

\* C29 witness: the pre-pass moved a stale remote-only article to draft
\* and left alone a remote-only article that is already draft.
C29_Witness ==
    /\ PrePassDone
    /\ \E k \in UnstableRemoteOnly : products[k].status = "draft"
    /\ \E n \in DOMAIN calls :
          /\ calls[n].status = "draft"
          /\ \E k \in DOMAIN products :
                /\ products[k].article = calls[n].article
                /\ products[k].status = "uploaded"
                /\ products[k].vendor_code \notin LocalArticles(offers)

\* ---- shared state of a run
\* C30: the used set is written by the planning pass alone and the
\* pending-moderation set by the pre-pass and the planning pass alone, in
\* both cases before any batch has started; from the start of the first
\* batch on, and in every step of a task, both sets keep their value; the
\* variant snapshot is never written during the run.
C30_SetsWrittenBeforeBatches ==
    [][/\ used_keys' # used_keys => (ppc = "plan" /\ batches = <<>> /\ ~TasksRunning)
       /\ articles_to_moderate' # articles_to_moderate =>
             (ppc \in {"prepass", "plan"} /\ batches = <<>> /\ ~TasksRunning)
       /\ (mainpc = "gathering" \/ batches # <<>>) =>
             UNCHANGED <<used_keys, articles_to_moderate>>
       /\ UNCHANGED article_sizeID_mapping]_vars

\* C30 witness: a task of the deactivation batch is in its request while
\* the used set and the pending-moderation set, filled by the planning
\* pass, are non-empty, after an update batch that ran tasks.
C30_Witness ==
    /\ ppc = "deactivations_running"
    /\ \E t \in Tasks : epc[t] = "request"
    /\ used_keys # {}
    /\ articles_to_moderate # {}
    /\ Len(batches) = 1
    /\ batches[1] # <<>>

\* ---- the operations of one run, by variant
\* keys of the variants the update tasks are for
UpdatedKeys == {ResolvedKey(offers[update_args[k].offer]) : k \in DOMAIN update_args}

\* C31: once the deactivations are planned, no key and no barcode has both
\* an update task and a deactivation task.
C31_UpdateDeactivateDisjoint ==
    DeactivationsPlanned =>
        /\ UpdatedKeys \cap DeactivatedKeys = {}
        /\ \A k \in DOMAIN update_args : \A j \in DOMAIN deactivate_args :
              update_args[k].barcode # deactivate_args[j].barcode

\* C31 witness: one run updates a variant of an article and deactivates
\* another variant of the same article.
C31_Witness ==
    /\ DeactivationsPlanned
    /\ \E k \in DOMAIN update_args : \E j \in DOMAIN deactivate_args :
          update_args[k].article = deactivate_args[j].article

\* the create calls and the update tasks of one key
CreatesForKey(key) ==
    {k \in CreateCalls : calls[k].article = key[1] /\ calls[k].size_id = key[2]}
UpdatesForKey(key) ==
    {k \in DOMAIN update_args : ResolvedKey(offers[update_args[k].offer]) = key}
WrittenKeys == CreatedKeys \cup UpdatedKeys

\* C32 (as stated): once planning has returned, each key has at most one
\* write operation, a create call or an update task, also when several
\* offers resolve to it.
C32_OneWritePerKey ==
    Planned =>
        \A key \in WrittenKeys :
            Cardinality(CreatesForKey(key)) + Cardinality(UpdatesForKey(key)) <= 1

\* C33: once the deactivations are planned, no deactivation task is for
\* the article and the size id of a create call of the run.
C33_CreatedNotDeactivated ==
    DeactivationsPlanned =>
        \A c \in CreateCalls : \A j \in DOMAIN deactivate_args :
            ~(/\ deactivate_args[j].article = calls[c].article
              /\ deactivate_args[j].key[2] = calls[c].size_id)

\* C33 witness: the run created a variant of an article and deactivates
\* another variant of the same article.
C33_Witness ==
    /\ DeactivationsPlanned
    /\ \E c \in CreateCalls : \E j \in DOMAIN deactivate_args :
          /\ deactivate_args[j].article = calls[c].article
          /\ deactivate_args[j].key[2] # calls[c].size_id

\* ---- a remote side that already matches
\* every offer has its variant, active and with the offer's prices and
\* quantity, and every variant no offer resolves to is inactive
RemoteMatchesLocal ==
    /\ \A i \in DOMAIN offers :
          /\ ~IsLocalOnly(i)
          /\ Resolves(offers[i])
          /\ HasVariant(offers[i])
          /\ FullyMatches(offers[i])
    /\ \A key \in DOMAIN article_sizeID_mapping :
          (\A i \in DOMAIN offers : ResolvedKey(offers[i]) # key) =>
             article_sizeID_mapping[key].offer_activity = FALSE

\* C34 (as stated): a run over a remote side that already matches issues
\* no create call, no update task and no deactivation task.
C34_FixedPoint ==
    (Planned /\ RemoteMatchesLocal) =>
        /\ CreateCalls = {}
        /\ update_args = <<>>
        /\ deactivate_args = <<>>

\* ---- the status transitions of one article over a run
StatusCallsFor(article) ==
    {k \in DOMAIN calls : calls[k].op = "status" /\ calls[k].article = article}
\* the status of the last transition requested for `article`
LastStatusFor(article) ==
    LET ks == StatusCallsFor(article)
    IN calls[CHOOSE k \in ks : \A j \in ks : j <= k].status
\* the articles of remoteOnly minus notUploaded, as categorized at the
\* start of the run
StaleAtStart ==
    {Get(categorized.all_products_map, vc) : vc \in ArticlesToArchive(categorized)}
RunDone == ppc = "done"

\* C35 (as stated): when the run is over, the last status transition
\* requested for every article of remoteOnly minus notUploaded is draft.
C35_StaleEndsDraft ==
    RunDone =>
        \A a \in StaleAtStart :
            StatusCallsFor(a) # {} /\ LastStatusFor(a) = "draft"

\* the transitions to draft requested for `article` by the pre-pass and
\* by planning
DraftTransitionsFor(article) ==
    {k \in StatusCallsFor(article) :
        calls[k].status = "draft" /\ calls[k].phase \in {"prepass", "plan"}}

\* C36 (as stated): over the pre-pass and planning, at most one transition
\* to draft is requested per article.
C36_OneDraftPerArticle ==
    \A k \in DOMAIN calls :
        calls[k].op = "status" =>
            Cardinality(DraftTransitionsFor(calls[k].article)) <= 1

\* ---- the activity and the quantity of the tasks
\* C37: every update task of planning is active and carries the stock
\* quantity and the prices of the offer it came from, whatever the offer's
\* availability flag; every task of the deactivation planner is inactive
\* with quantity 0.
C37_UpdateTasksActive ==
    /\ \A k \in DOMAIN update_args :
          /\ update_args[k].activity = TRUE
          /\ update_args[k].quantity = offers[update_args[k].offer].stock_quantity
          /\ update_args[k].base_price_amount = offers[update_args[k].offer].price
          /\ update_args[k].discount_price_amount =
                offers[update_args[k].offer].discount_price
    /\ \A j \in DOMAIN deactivate_args :
          deactivate_args[j].activity = FALSE /\ deactivate_args[j].quantity = 0

\* C37 witness: an offer that is not available got an update task, and the
\* deactivation planner made a task as well.
C37_Witness ==
    /\ DeactivationsPlanned
    /\ deactivate_args # <<>>
    /\ \E k \in DOMAIN update_args :
          /\ offers[update_args[k].offer].available = FALSE
          /\ update_args[k].quantity > 0

\* ---- the executor under a server that answers
\* run_all_offer_updates has returned, every task at a terminal outcome and
\* every permit of the gate free
ExecutorFinished ==
    /\ mainpc = "returned"
    /\ \A t \in Tasks : epc[t] \in Terminal
    /\ sem = concurrency_limit
    /\ waiters = <<>>
    /\ woken = {}
\* a task is started once and ends once: it never goes back to the gate
\* and its outcome never changes
TaskRunsOnce ==
    \A t \in Tasks :
        /\ epc[t] # "pending" => epc'[t] # "pending"
        /\ epc[t] \in Terminal => epc'[t] = epc[t]

\* C38: when every task's requests are eventually answered with a success
\* or a 404, run_all_offer_updates eventually returns and stays returned
\* with every task at a terminal outcome and all permits free, and each
\* task is executed exactly once.
C38_ExecutorTerminates ==
    /\ [][TaskRunsOnce]_vars
    /\ <>[]ExecutorFinished

\* C38 witness: the call returned after more tasks than permits were all
\* answered.
C38_Witness ==
    /\ ExecutorFinished
    /\ ntasks > concurrency_limit
    /\ \A t \in Tasks : epc[t] = "done"

=============================================================================
